---- MODULE Spec2Model ----
(***************************************************************************)
(* A model of the Spotify client of the music-sphere application           *)
(* (src/unnamed/part_004, the module imported as "@/lib/spotify"):         *)
(*   - fetchWithRetry and the process-wide spotifyRateLimitedUntil,        *)
(*     run by several concurrent calls on one event loop, with a clock;    *)
(*   - the delay functions rateLimitDelayMs, clampRateLimitDelayMs and     *)
(*     retryDelayMs;                                                       *)
(*   - the merge of the three sources in fetchUserTracks.                  *)
(* Times are milliseconds.                                                 *)
(***************************************************************************)
EXTENDS Integers, Sequences, FiniteSets, TLC

VARIABLES
    now,                    \* Date.now()
    spotifyRateLimitedUntil,\* the shared cool-down deadline (0: none)
    pc,                     \* per call: where fetchWithRetry is suspended
    attempt,                \* per call: the loop variable
    timer,                  \* per call: when its pending timer fires (0: none)
    lastResponse,           \* per call: status of lastResponse (0: null)
    lastError,              \* per call: "none" | "network" | "abort"
    sent,                   \* per call: number of HTTP requests issued
    got429,                 \* per call: when it last received 429 retry-after: 5
    okSince,                \* per call: a 2xx arrived somewhere after got429
    seen,                   \* per call: what it observed if it began 1 s after a got429
    world,                  \* what the server and the network do in this run
    dCause, dHeader, dAttempt, dJitter, dRate, dSleep, dDone, \* the delay functions
    limit, liked, recent, savedAlbums, trackMap, mpc, output, \* fetchUserTracks
    ids,                    \* fetchAudioFeatures: its argument
    groups,                 \* chunks(ids, 100)
    byId,                   \* the keys of the Map byId (the value of a key is its feature)
    fpc,                    \* "idle" | "waiting" | "returned" | "threw"
    fIdx,                   \* the chunk whose request is in flight
    fSent,                  \* the chunks requested, in order
    fAnswers,               \* what the endpoint answered, chunk by chunk
    fError,                 \* the message of the error thrown
    jMode, jLimit,          \* the sync route: json.mode and json.limit of the request
    mode, syncLimit, quickMode, \* the sync route: lines 159-163
    rpc,                    \* the sync route: where POST is
    rError,                 \* the sync route: the error caught at line 258
    response,               \* the sync route: the status of its response (0: none yet)
    sphereStored,           \* the sync route: setSessionSphere was called
    tpc, tError,            \* fetchUserTracks: the state of its promise, its error
    wpc,                    \* per walk: where collectPaged is
    got,                    \* per walk: allItems.length
    more,                   \* per walk: pathOrUrl is not null
    asked,                  \* per walk: pages requested
    told,                   \* per walk: calls of onPage
    wError,                 \* per walk: the error collectPagedSafe caught
    res,                    \* per walk: the length of the list it returned
    reported,               \* the last value passed to onProgress
    session,                \* the session file: tokens, sphere, syncProgress
    wpct,                   \* per walk: the percent its onProgress is writing (-1: none)
    retryAfterMs,           \* the sync route: retryAfterMs of its response (-1: none)
    rawTracks, featureMap,  \* createSpherePayload: its arguments
    payload,                \* createSpherePayload: what it returned
    synthLog,               \* the calls of fallbackFeaturesFromTrack: argument and result
    entropy,                \* what differs from call to call: the time, Math.random
    trackFeatures,          \* buildFeatureMatrix: its argument
    featureMatrix,          \* buildFeatureMatrix: what it returned
    sphereTracks,           \* DirectionSelector: the prop tracks (id and position)
    camera,                 \* DirectionSelector: the normalised camera position
    current,                \* DirectionSelector: current.current (id and score)
    sinceSwitch,            \* DirectionSelector: now - lastSwitchTs, up to SwitchCap
    gap,                    \* the time between the last two selections (-1: none)
    file,                   \* the session file of one session
    setter,                 \* per request: where its setSession* call is
    loggedOut,              \* clearSession has completed
    lastWrite               \* per field: the value of the last write made to it

fetchVars == <<now, spotifyRateLimitedUntil, pc, attempt, timer,
               lastResponse, lastError, sent, got429, okSince, seen, world>>
delayVars == <<dCause, dHeader, dAttempt, dJitter, dRate, dSleep, dDone>>
mergeVars == <<limit, liked, recent, savedAlbums, trackMap, mpc, output>>
featVars == <<ids, groups, byId, fpc, fIdx, fSent, fAnswers, fError>>
syncVars == <<jMode, jLimit, mode, syncLimit, quickMode, rpc, rError, response,
              sphereStored, tpc, tError, wpc, got, more, asked, told, wError, res,
              reported>>
storeVars == <<session, wpct, retryAfterMs>>
payloadVars == <<rawTracks, featureMap, payload, synthLog, entropy>>
matrixVars == <<trackFeatures, featureMatrix>>
selectVars == <<sphereTracks, camera, current, sinceSwitch, gap>>
raceVars == <<file, setter, loggedOut, lastWrite>>
vars == <<fetchVars, delayVars, mergeVars, featVars, syncVars, storeVars, payloadVars,
          matrixVars, selectVars, raceVars>>

(* what the steps of one part of the model leave alone *)
exceptFetch == <<delayVars, mergeVars, featVars, syncVars, storeVars, payloadVars,
        matrixVars, selectVars, raceVars>>
exceptDelay == <<fetchVars, mergeVars, featVars, syncVars, storeVars, payloadVars,
        matrixVars, selectVars, raceVars>>
exceptMerge == <<fetchVars, delayVars, featVars, syncVars, storeVars, payloadVars,
        matrixVars, selectVars, raceVars>>
exceptFeat == <<fetchVars, delayVars, mergeVars, syncVars, storeVars, payloadVars,
        matrixVars, selectVars, raceVars>>
exceptSync == <<fetchVars, delayVars, mergeVars, storeVars, payloadVars,
        matrixVars, selectVars, raceVars>>
exceptStore == <<delayVars, mergeVars, payloadVars,
        matrixVars, selectVars, raceVars>>
exceptPayload == <<fetchVars, delayVars, mergeVars, featVars, syncVars, storeVars,
                   matrixVars, selectVars, raceVars>>
exceptMatrix == <<fetchVars, delayVars, mergeVars, featVars, syncVars, storeVars,
                  payloadVars, selectVars, raceVars>>
exceptSelect == <<fetchVars, delayVars, mergeVars, featVars, syncVars, storeVars,
                  payloadVars, matrixVars, raceVars>>
exceptRace == <<fetchVars, delayVars, mergeVars, featVars, syncVars, storeVars,
                payloadVars, matrixVars, selectVars>>

----------------------------------------------------------------------------
(* Program constants, part_004 lines 7-10 *)
MAX_RETRIES == 1
REQUEST_TIMEOUT_MS == 25000
DEFAULT_RATE_LIMIT_DELAY_MS == 20000
MAX_RATE_LIMIT_DELAY_MS == 180000

(* Bounds of the model *)
MaxNow == 1000       \* calls start up to here; later the clock moves from timer to timer
MaxLatency == 1000   \* a response takes at most this long, unless the request times out
MaxAttempt == 3      \* attempts given to retryDelayMs on its own
MaxLimit == 2        \* the limit of fetchUserTracks
MaxItems == 2        \* items per source
MaxIds == 201        \* ids given to fetchAudioFeatures
MaxPages == 2        \* pages a source has

Max(a, b) == IF a >= b THEN a ELSE b
Min(a, b) == IF a <= b THEN a ELSE b

----------------------------------------------------------------------------
(* The retry-after header.  k is what response.headers.get("retry-after")   *)
(* and Number() make of it: "absent" (null), "empty" (""), "nan" (not a     *)
(* number), "inf" (Infinity), "neg" (a negative number) or "num": a number  *)
(* of seconds >= 0 with seconds * 1000 = ms + a fraction (frac: in (0,1)).  *)
Hdr(k, ms, frac) == [k |-> k, ms |-> ms, frac |-> frac]
NoHeader == Hdr("absent", 0, FALSE)
Seconds(s) == Hdr("num", s * 1000, FALSE)

(* Math.ceil(seconds * 1000) *)
CeilMs(h) == h.ms + (IF h.frac THEN 1 ELSE 0)

(* retryAfter truthy, Number.isFinite(seconds) && seconds >= 0 *)
ValidHint(h) == h.k = "num"

(* clampRateLimitDelayMs without the lower bound of Math.max *)
clampRateLimitDelayMs_NoFloor(h) ==
    IF h.ms = 0 /\ ~h.frac
    THEN DEFAULT_RATE_LIMIT_DELAY_MS
    ELSE Min(MAX_RATE_LIMIT_DELAY_MS, CeilMs(h))

(* clampRateLimitDelayMs without the upper bound of Math.min *)
clampRateLimitDelayMs_NoCap(h) ==
    IF h.ms = 0 /\ ~h.frac
    THEN DEFAULT_RATE_LIMIT_DELAY_MS
    ELSE Max(1000, CeilMs(h))

(* clampRateLimitDelayMs applied to seconds * 1000 *)
clampRateLimitDelayMs(h) ==
    IF h.ms = 0 /\ ~h.frac
    THEN DEFAULT_RATE_LIMIT_DELAY_MS
    ELSE Max(1000, Min(MAX_RATE_LIMIT_DELAY_MS, CeilMs(h)))

rateLimitDelayMs(h) ==
    IF ValidHint(h) THEN clampRateLimitDelayMs(h) ELSE DEFAULT_RATE_LIMIT_DELAY_MS

(* retryDelayMs without the cap of Math.min(3_500, ...) *)
retryDelayMs_Uncapped(h, a, jitter) ==
    IF ValidHint(h)
    THEN Min(MAX_RATE_LIMIT_DELAY_MS, CeilMs(h))
    ELSE 500 * (2 ^ a) + jitter

retryDelayMs(h, a, jitter) ==
    IF ValidHint(h)
    THEN Min(MAX_RATE_LIMIT_DELAY_MS, CeilMs(h))
    ELSE Min(3500, 500 * (2 ^ a) + jitter)

(* line 174, the sleep of the catch block: 400 + attempt * 250 *)
errorDelayMs(a) == 400 + a * 250

(* lines 167-168 and 174: the sleep before the next attempt, by its cause:  *)
(* "429", "5xx" (a response with status >= 500) or "error" (fetch rejected) *)
retrySleepMs(cause, h, a, jitter) ==
    IF cause = "429" THEN rateLimitDelayMs(h)
    ELSE IF cause = "5xx" THEN retryDelayMs(h, a, jitter)
    ELSE errorDelayMs(a)

(* normalizeRateLimitRemainingMs with the test on remaining reversed *)
normalizeRemaining_Reversed(until, t) ==
    IF until - t >= 0 THEN 0 ELSE Min(MAX_RATE_LIMIT_DELAY_MS, until - t)

(* normalizeRateLimitRemainingMs: the value returned, and the deadline left *)
normalizeRemaining(until, t) ==
    IF until - t <= 0 THEN 0 ELSE Min(MAX_RATE_LIMIT_DELAY_MS, until - t)

normalizeUntil(until, t) ==
    IF until - t <= 0 THEN 0 ELSE t + Min(MAX_RATE_LIMIT_DELAY_MS, until - t)

(* line 159 without Math.max with the remaining cool-down *)
untilAfter429_Overwrite(until, t, d) == t + d

(* lines 158-159: the deadline after a 429 whose delay is d *)
untilAfter429(until, t, d) == t + Max(normalizeRemaining(until, t), d)

(* line 152 left out *)
untilAfterOk_Keep(until) == until

(* line 152: the deadline after a 2xx *)
untilAfterOk(until) == 0

----------------------------------------------------------------------------
(* fetchWithRetry, lines 135-184, one instance per call.  A call is         *)
(* suspended at one of its awaits:                                          *)
(*   "idle"       not yet called                                            *)
(*   "sleepCool"  line 142, await sleep(waitMs)                             *)
(*   "fetching"   line 148, await fetch(...)                                *)
(*   "sleepRetry" line 168 or 174, the sleep before the next attempt        *)
(*   "returned"   it returned a response;  "failed"  it threw               *)
(* timer[p] is the time at which the call's pending setTimeout fires: the   *)
(* one of sleep() (line 88) or the abort timer of line 146.                 *)
(* Two kinds of run.  "busy": three concurrent calls (the three walks of    *)
(* fetchUserTracks, line 383), every request answered 200 or 429 within     *)
(* MaxLatency.  "faulty": two concurrent calls, any status, and a request   *)
(* may fail in transport or stay unanswered until the abort timer fires.    *)
Calls == {"a", "b", "c"}
Worlds == {"busy", "faulty"}
CallsOf(w) == IF w = "busy" THEN Calls ELSE {"a", "b"}
Statuses == {401, 403, 500}    \* the statuses other than 2xx and 429
FetchHeaders == {NoHeader, Seconds(5), Seconds(200)}
Jitters == {0, 249}          \* Math.floor(Math.random() * 250) is in 0..249
ClockSteps == {1000}

NoSeen == [hit |-> FALSE, fresh |-> FALSE, at |-> 0, wait |-> 0]

InitFetch ==
    /\ world \in Worlds
    /\ now = 0
    /\ spotifyRateLimitedUntil = 0
    /\ pc = [p \in Calls |-> "idle"]
    /\ attempt = [p \in Calls |-> 0]
    /\ timer = [p \in Calls |-> 0]
    /\ lastResponse = [p \in Calls |-> 0]
    /\ lastError = [p \in Calls |-> "none"]
    /\ sent = [p \in Calls |-> 0]
    /\ got429 = [p \in Calls |-> -1]
    /\ okSince = [p \in Calls |-> FALSE]
    /\ seen = [p \in Calls |-> NoSeen]

(* lines 145-148: the abort timer is armed and the request goes out *)
Send(p) ==
    /\ pc' = [pc EXCEPT ![p] = "fetching"]
    /\ timer' = [timer EXCEPT ![p] = now + REQUEST_TIMEOUT_MS]
    /\ sent' = [sent EXCEPT ![p] = @ + 1]

(* lines 140-148: the head of the loop body, up to the first await *)
LoopHead(p) ==
    LET waitMs == normalizeRemaining(spotifyRateLimitedUntil, now) IN
    /\ spotifyRateLimitedUntil' = normalizeUntil(spotifyRateLimitedUntil, now)
    /\ IF waitMs > 0
       THEN /\ pc' = [pc EXCEPT ![p] = "sleepCool"]
            /\ timer' = [timer EXCEPT ![p] = now + waitMs]
            /\ UNCHANGED sent
       ELSE Send(p)

(* a caller invokes fetchWithRetry *)
Start(p) ==
    /\ pc[p] = "idle"
    /\ p \in CallsOf(world)
    /\ now <= MaxNow
    /\ LoopHead(p)
    /\ seen' = [seen EXCEPT ![p] =
         IF \E q \in Calls \ {p} : got429[q] >= 0 /\ got429[q] + 1000 = now
         THEN [hit   |-> TRUE,
               fresh |-> \E q \in Calls \ {p} :
                            got429[q] >= 0 /\ got429[q] + 1000 = now /\ ~okSince[q],
               at    |-> now,
               wait  |-> normalizeRemaining(spotifyRateLimitedUntil, now)]
         ELSE NoSeen]
    /\ UNCHANGED <<now, attempt, lastResponse, lastError, got429, okSince, world>>

(* line 142 resumes: the cool-down sleep is over, the request goes out *)
WakeCool(p) ==
    /\ pc[p] = "sleepCool"
    /\ now >= timer[p]
    /\ Send(p)
    /\ UNCHANGED <<now, spotifyRateLimitedUntil, attempt, lastResponse, lastError,
                   got429, okSince, seen, world>>

(* lines 163-165 without the test attempt === MAX_RETRIES *)
AfterResponse_Unbounded(p, status, h, jitter) ==
    IF ~(status = 429 \/ status >= 500)
    THEN /\ pc' = [pc EXCEPT ![p] = "returned"]
         /\ timer' = [timer EXCEPT ![p] = 0]
    ELSE /\ pc' = [pc EXCEPT ![p] = "sleepRetry"]
         /\ timer' = [timer EXCEPT ![p] =
               now + retrySleepMs(IF status = 429 THEN "429" ELSE "5xx",
                                  h, attempt[p], jitter)]

(* line 162 with every status >= 400 retryable *)
AfterResponse_Retry4xx(p, status, h, jitter) ==
    IF ~(status >= 400) \/ attempt[p] = MAX_RETRIES
    THEN /\ pc' = [pc EXCEPT ![p] = "returned"]
         /\ timer' = [timer EXCEPT ![p] = 0]
    ELSE /\ pc' = [pc EXCEPT ![p] = "sleepRetry"]
         /\ timer' = [timer EXCEPT ![p] =
               now + retrySleepMs(IF status = 429 THEN "429" ELSE "5xx",
                                  h, attempt[p], jitter)]

(* lines 162-168: return the response, or sleep before the next attempt *)
AfterResponse(p, status, h, jitter) ==
    IF ~(status = 429 \/ status >= 500) \/ attempt[p] = MAX_RETRIES
    THEN /\ pc' = [pc EXCEPT ![p] = "returned"]
         /\ timer' = [timer EXCEPT ![p] = 0]
    ELSE /\ pc' = [pc EXCEPT ![p] = "sleepRetry"]
         /\ timer' = [timer EXCEPT ![p] =
               now + retrySleepMs(IF status = 429 THEN "429" ELSE "5xx",
                                  h, attempt[p], jitter)]

(* fetch() settles within MaxLatency of the request, or not before the    *)
(* abort timer fires                                                       *)
Responds(p) ==
    /\ pc[p] = "fetching"
    /\ now <= timer[p]
    /\ now + REQUEST_TIMEOUT_MS <= timer[p] + MaxLatency

(* lines 149-154: a 2xx response *)
RespondOk(p) ==
    /\ Responds(p)
    /\ lastResponse' = [lastResponse EXCEPT ![p] = 200]
    /\ spotifyRateLimitedUntil' = untilAfterOk(spotifyRateLimitedUntil)
    /\ pc' = [pc EXCEPT ![p] = "returned"]
    /\ timer' = [timer EXCEPT ![p] = 0]
    /\ okSince' = [q \in Calls |-> okSince[q] \/ got429[q] >= 0]
    /\ UNCHANGED <<now, attempt, lastError, sent, got429, seen, world>>

(* lines 156-168: a 429 response *)
Respond429(p, h) ==
    /\ Responds(p)
    /\ lastResponse' = [lastResponse EXCEPT ![p] = 429]
    /\ spotifyRateLimitedUntil' =
           untilAfter429(spotifyRateLimitedUntil, now, rateLimitDelayMs(h))
    /\ AfterResponse(p, 429, h, 0)
    /\ IF h = Seconds(5)
       THEN /\ got429' = [got429 EXCEPT ![p] = now]
            /\ okSince' = [okSince EXCEPT ![p] = FALSE]
       ELSE UNCHANGED <<got429, okSince>>
    /\ UNCHANGED <<now, attempt, lastError, sent, seen, world>>

(* lines 162-168: any other response that is not ok *)
RespondOther(p, status, h, jitter) ==
    /\ world = "faulty"
    /\ Responds(p)
    /\ status # 429 /\ ~(status >= 200 /\ status <= 299)
    /\ lastResponse' = [lastResponse EXCEPT ![p] = status]
    /\ AfterResponse(p, status, h, jitter)
    /\ UNCHANGED <<now, spotifyRateLimitedUntil, attempt, lastError, sent,
                   got429, okSince, seen, world>>

(* lines 169-174 and 180-182: fetch() rejected *)
Caught(p, kind) ==
    /\ lastError' = [lastError EXCEPT ![p] = kind]
    /\ IF attempt[p] = MAX_RETRIES
       THEN /\ pc' = [pc EXCEPT ![p] = "failed"]
            /\ timer' = [timer EXCEPT ![p] = 0]
       ELSE /\ pc' = [pc EXCEPT ![p] = "sleepRetry"]
            /\ timer' = [timer EXCEPT ![p] = now + retrySleepMs("error", NoHeader, attempt[p], 0)]
    /\ UNCHANGED <<now, spotifyRateLimitedUntil, attempt, lastResponse, sent,
                   got429, okSince, seen, world>>

(* a transport failure *)
NetworkFail(p) ==
    /\ world = "faulty"
    /\ Responds(p)
    /\ Caught(p, "network")

(* line 146: the timer fires controller.abort() after REQUEST_TIMEOUT_MS *)
Abort(p) ==
    /\ pc[p] = "fetching"
    /\ now >= timer[p]
    /\ Caught(p, "abort")

(* lines 168/174 resume, line 139: attempt += 1 and the loop body again *)
WakeRetry(p) ==
    /\ pc[p] = "sleepRetry"
    /\ now >= timer[p]
    /\ attempt' = [attempt EXCEPT ![p] = @ + 1]
    /\ LoopHead(p)
    /\ UNCHANGED <<now, lastResponse, lastError, got429, okSince, seen, world>>

(* spotifyRateLimitState, lines 452-458, called by the sync route *)
ReadRateLimitState ==
    /\ spotifyRateLimitedUntil' = normalizeUntil(spotifyRateLimitedUntil, now)
    /\ spotifyRateLimitedUntil' # spotifyRateLimitedUntil
    /\ UNCHANGED <<now, pc, attempt, timer, lastResponse, lastError, sent,
                   got429, okSince, seen, world>>

(* The clock.  A timer fires when it is due: the clock does not pass a      *)
(* pending timer.  It ticks while new calls may start (up to MaxNow) and    *)
(* otherwise moves to the next pending timer.                               *)
Pending ==
    {timer[p] : p \in {q \in Calls : pc[q] \in {"sleepCool", "sleepRetry"}}}
    \cup {IF world = "busy" THEN timer[p] - REQUEST_TIMEOUT_MS + MaxLatency ELSE timer[p] :
             p \in {q \in Calls : pc[q] = "fetching"}}

(* got429 and okSince are kept for one second, the delay they are read at *)
Forget ==
    /\ got429' = [q \in Calls |-> IF got429[q] + 1000 < now' THEN -1 ELSE got429[q]]
    /\ okSince' = [q \in Calls |-> okSince[q] /\ got429'[q] >= 0]

TickClock ==
    /\ \E d \in ClockSteps :
          /\ now + d <= MaxNow
          /\ \A e \in Pending : now + d <= e
          /\ now' = now + d
    /\ Forget
    /\ UNCHANGED <<spotifyRateLimitedUntil, pc, attempt, timer, lastResponse,
                   lastError, sent, seen, world>>

JumpClock ==
    /\ \E d \in Pending :
          /\ d > now
          /\ \A e \in Pending : d <= e
          /\ now' = d
    /\ Forget
    /\ UNCHANGED <<spotifyRateLimitedUntil, pc, attempt, timer, lastResponse,
                   lastError, sent, seen, world>>

----------------------------------------------------------------------------
(* The delay functions on their own: one 429, 5xx or rejected fetch on      *)
(* attempt dAttempt with retry-after header dHeader; dRate is the delay of  *)
(* line 157, dSleep the sleep of line 168 or 174.                           *)
DelayHeaders ==
    {Hdr(k, 0, FALSE) : k \in {"absent", "empty", "nan", "inf", "neg"}}
    \cup {Hdr("num", ms, f) : ms \in {0, 999, 1000, 5000, 179999, 180000, 200000},
                              f \in BOOLEAN}
DelayJitters == {0, 100, 249}
Causes == {"429", "5xx", "error"}

InitDelay ==
    /\ dCause \in Causes
    /\ dHeader \in DelayHeaders
    /\ dAttempt \in 0..MaxAttempt
    /\ dJitter \in DelayJitters
    /\ dRate = 0
    /\ dSleep = 0
    /\ dDone = FALSE

ComputeDelays ==
    /\ ~dDone
    /\ dRate' = rateLimitDelayMs(dHeader)
    /\ dSleep' = retrySleepMs(dCause, dHeader, dAttempt, dJitter)
    /\ dDone' = TRUE
    /\ UNCHANGED <<dCause, dHeader, dAttempt, dJitter>>

----------------------------------------------------------------------------
(* fetchUserTracks, lines 383-410: the merge of the three collected lists.  *)
(* A track object is its id (NoId: a track without id); a RawTrack carries  *)
(* its id and, standing for its metadata, the entry it was made from: the   *)
(* source and the place <<album, index>> in it.                             *)
TrackIds == {"t1", "t2"}
NoId == ""
TrackObjects == TrackIds \cup {NoId}

SeqsUpTo(S, n) == UNION {[1..k -> S] : k \in 0..n}

(* toRawTrack, lines 319-334; null is <<>> *)
toRawTrack(id, src, pos) ==
    IF id = NoId THEN <<>> ELSE <<[id |-> id, src |-> src, pos |-> pos]>>

(* Map.set as delete-then-insert: a known key moves to the end *)
mapSet_MoveToEnd(m, raw) ==
    LET Other(r) == r.id # raw.id IN Append(SelectSeq(m, Other), raw)

(* Map.set on a Map kept in insertion order: a known key keeps its place *)
mapSet(m, raw) ==
    IF \E i \in 1..Len(m) : m[i].id = raw.id
    THEN [i \in 1..Len(m) |-> IF m[i].id = raw.id THEN raw ELSE m[i]]
    ELSE Append(m, raw)

(* lines 387-392, 394-399 and the inner loop 402-407: one list of tracks *)
RECURSIVE setAll(_, _, _, _, _)
setAll(m, tracks, src, album, k) ==
    IF k > Len(tracks) THEN m
    ELSE LET raw == toRawTrack(tracks[k], src, <<album, k>>) IN
         setAll(IF raw = <<>> THEN m ELSE mapSet(m, raw[1]), tracks, src, album, k + 1)

(* lines 401-408 *)
RECURSIVE setAlbums(_, _, _)
setAlbums(m, albums, a) ==
    IF a > Len(albums) THEN m
    ELSE setAlbums(setAll(m, albums[a], "saved", a, 1), albums, a + 1)

(* line 410: [...trackMap.values()].slice(0, limit) *)
sliceToLimit(m, n) == SubSeq(m, 1, Min(n, Len(m)))

(* What collectPaged hands over (line 299, slice(0, maxItems)): at most      *)
(* limit liked items, max(1, floor(limit / 2)) recent items and              *)
(* max(1, floor(limit / 5)) saved albums (lines 357-381).                    *)
InitMerge ==
    /\ limit \in 1..MaxLimit
    /\ liked \in SeqsUpTo(TrackObjects, Min(MaxItems, limit))
    /\ recent \in SeqsUpTo(TrackObjects, Min(MaxItems, Max(1, limit \div 2)))
    /\ savedAlbums \in SeqsUpTo(SeqsUpTo(TrackObjects, MaxItems),
                                Min(MaxItems, Max(1, limit \div 5)))
    /\ trackMap = <<>>
    /\ mpc = "liked"
    /\ output = <<>>

MergeLiked ==
    /\ mpc = "liked"
    /\ trackMap' = setAll(trackMap, liked, "liked", 1, 1)
    /\ mpc' = "recent"
    /\ UNCHANGED <<limit, liked, recent, savedAlbums, output>>

MergeRecent ==
    /\ mpc = "recent"
    /\ trackMap' = setAll(trackMap, recent, "recent", 1, 1)
    /\ mpc' = "saved"
    /\ UNCHANGED <<limit, liked, recent, savedAlbums, output>>

MergeSaved ==
    /\ mpc = "saved"
    /\ trackMap' = setAlbums(trackMap, savedAlbums, 1)
    /\ mpc' = "slice"
    /\ UNCHANGED <<limit, liked, recent, savedAlbums, output>>

ReturnTracks ==
    /\ mpc = "slice"
    /\ output' = sliceToLimit(trackMap, limit)
    /\ mpc' = "done"
    /\ UNCHANGED <<limit, liked, recent, savedAlbums, trackMap>>

----------------------------------------------------------------------------
(* fetchAudioFeatures, lines 413-439, and chunks of src/lib/http.ts.        *)
(* Track ids are numbers.  The endpoint answers a chunk with one entry per  *)
(* id asked for, a feature or null; which entries are null is one of        *)
(* NullPatterns.  A feature's id is the id asked for.                       *)
FEATURE_BATCH == 100

(* an error as thrown by safeJson (line 4 of http.ts: "HTTP <status>: " and *)
(* the body of the response) or by fetchWithRetry (line 181)                *)
HttpError(status) == [kind |-> "http", status |-> status]
TransportError == [kind |-> "transport", status |-> 0]
NoError == [kind |-> "none", status |-> 0]

(* message.includes("HTTP 403"); the body of an error response is the API's *)
(* error object, which does not itself contain the text "HTTP 403"          *)
IsPermissionError(e) == e.kind = "http" /\ e.status = 403

(* what spotifyFetch can end in: a parsed body, or one of these errors *)
FetchErrors == {HttpError(401), HttpError(403), HttpError(429), HttpError(500),
                TransportError}

(* chunks(array, size), http.ts lines 9-15 *)
RECURSIVE chunksFrom(_, _, _)
chunksFrom(array, size, i) ==
    IF i >= Len(array) THEN <<>>
    ELSE <<SubSeq(array, i + 1, Min(i + size, Len(array)))>>
             \o chunksFrom(array, size, i + size)
(* chunks cutting at i + size + 1 *)
chunks_OneMore(array, size) == chunksFrom(array, size + 1, 0)

chunks(array, size) == chunksFrom(array, size, 0)

NullPatterns == {"none", "first", "all"}
(* lines 430-435: the ids of the entries that are features with an id *)
featureIds(group, pattern) ==
    IF pattern = "all" THEN {}
    ELSE {group[i] : i \in (IF pattern = "first" THEN 2 ELSE 1)..Len(group)}

InitFeat ==
    /\ ids \in {[i \in 1..n |-> i] : n \in 0..MaxIds}
    /\ groups = <<>>
    /\ byId = {}
    /\ fpc = "idle"
    /\ fIdx = 0
    /\ fSent = <<>>
    /\ fAnswers = <<>>
    /\ fError = NoError

(* line 416, the head of the for loop: the next chunk's request goes out,   *)
(* or the loop is over and byId is returned (line 438)                      *)
FeatLoop(gs, k) ==
    IF k <= Len(gs)
    THEN /\ fpc' = "waiting"
         /\ fIdx' = k
         /\ fSent' = Append(fSent, k)
    ELSE /\ fpc' = "returned"
         /\ fIdx' = 0
         /\ UNCHANGED fSent

(* fetchAudioFeatures is called *)
FeatCall ==
    /\ fpc = "idle"
    /\ groups' = chunks(ids, FEATURE_BATCH)
    /\ FeatLoop(groups', 1)
    /\ UNCHANGED <<ids, byId, fAnswers, fError>>

(* lines 420 and 430-436: the chunk's body arrives *)
FeatOk(pattern) ==
    /\ fpc = "waiting"
    /\ byId' = byId \cup featureIds(groups[fIdx], pattern)
    /\ fAnswers' = Append(fAnswers, pattern)
    /\ FeatLoop(groups, fIdx + 1)
    /\ UNCHANGED <<ids, groups, fError>>

(* lines 421-428 without the test for "HTTP 403" *)
FeatFail_Rethrow(e) ==
    /\ fpc = "waiting"
    /\ fAnswers' = Append(fAnswers, "error")
    /\ fError' = e
    /\ fpc' = "threw"
    /\ fIdx' = 0
    /\ UNCHANGED <<ids, groups, byId, fSent>>

(* lines 421-428: spotifyFetch threw *)
FeatFail(e) ==
    /\ fpc = "waiting"
    /\ fAnswers' = Append(fAnswers, "error")
    /\ fError' = e
    /\ fpc' = IF IsPermissionError(e) THEN "returned" ELSE "threw"
    /\ fIdx' = 0
    /\ UNCHANGED <<ids, groups, byId, fSent>>

----------------------------------------------------------------------------
(* The options of the sync route, part_000 lines 158-163 and 198-203.       *)
(* json.mode is "full", "quick", another value ("other") or absent;         *)
(* json.limit is absent (undefined or null), or what Number() makes of it:  *)
(* NaN ("nan"), an infinity ("inf") or the number n ("num").                *)
SYNC_LIMIT_QUICK == 20
SYNC_LIMIT_FULL == 180
SYNC_LIMIT_MIN == 20
SYNC_LIMIT_MAX == 1000

JsonModes == {"full", "quick", "other", "absent"}
JLimit(k, n) == [k |-> k, n |-> n]
NoLimit == JLimit("absent", 0)
JsonLimits ==
    {NoLimit, JLimit("nan", 0), JLimit("inf", 0)}
    \cup {JLimit("num", n) : n \in {-1, 0, 1, 19, 20, 21, 25, 179, 180, 181,
                                    999, 1000, 1001, 100000}}

(* line 159 *)
modeOf(jm) == IF jm = "full" THEN "full" ELSE "quick"
(* line 160 *)
defaultLimitOf(m) == IF m = "full" THEN SYNC_LIMIT_FULL ELSE SYNC_LIMIT_QUICK
(* line 161: Number(json.limit ?? defaultLimit) *)
requestedLimitOf(jl, m) == IF jl.k = "absent" THEN JLimit("num", defaultLimitOf(m)) ELSE jl
(* line 162 without Math.max(20, ...) *)
limitOf_NoFloor(jl, m) ==
    LET requestedLimit == requestedLimitOf(jl, m) IN
    IF requestedLimit.k = "num"
    THEN Min(SYNC_LIMIT_MAX, requestedLimit.n)
    ELSE defaultLimitOf(m)

(* line 162 *)
limitOf(jl, m) ==
    LET requestedLimit == requestedLimitOf(jl, m) IN
    IF requestedLimit.k = "num"
    THEN Max(SYNC_LIMIT_MIN, Min(SYNC_LIMIT_MAX, requestedLimit.n))
    ELSE defaultLimitOf(m)

(* lines 201-203: includeLikedSongs, includeSavedAlbums, includeRecentlyPlayed *)
Walks == {"liked", "saved", "recent"}
includeOf_RecentAlways(m, w) ==
    IF w = "saved" THEN m = "full" ELSE TRUE

includeOf(m, w) ==
    IF w = "liked" THEN TRUE
    ELSE IF w = "saved" THEN m = "full"
    ELSE ~(m = "quick")

(* lines 158-163 *)
ParseBody ==
    /\ rpc = "idle"
    /\ mode' = modeOf(jMode)
    /\ syncLimit' = limitOf(jLimit, modeOf(jMode))
    /\ quickMode' = (modeOf(jMode) = "quick")
    /\ rpc' = "gate"
    /\ UNCHANGED <<jMode, jLimit, rError, response, sphereStored, tpc, tError, wpc,
                   got, more, asked, told, wError, res, reported>>

----------------------------------------------------------------------------
(* The three walks of fetchUserTracks, part_004 lines 275-317 and 344-383.  *)
(* A walk is suspended at one of its awaits:                                *)
(*   "off"       not started, or disabled (Promise.resolve([]))             *)
(*   "fetching"  line 286, await fetchWithRetry, and line 293, safeJson     *)
(*   "progress"  line 295, await onPage                                     *)
(*   "done"      collectPagedSafe returned a list of res[w] items           *)
(*   "failed"    collectPagedSafe threw wError[w]                           *)
StoreError == [kind |-> "store", status |-> 0]
TimeoutError == [kind |-> "timeout", status |-> 0]

DivFloor(a, b) == a \div b
DivCeil(a, b) == (a + b - 1) \div b

(* lines 357, 366, 376: maxItems *)
maxItemsOf(w, lim) ==
    IF w = "liked" THEN lim
    ELSE IF w = "saved" THEN Max(1, DivFloor(lim, 5))
    ELSE Max(1, DivFloor(lim, 2))

(* lines 352-354: the page size asked for; a page holds no more items *)
pageLimitOf(w, lim) ==
    IF w = "saved" THEN Max(1, Min(20, DivCeil(lim, 5))) ELSE Max(1, Min(50, lim))

(* a page: how many items, and whether page.next is a cursor *)
PagesOf(w, lim) ==
    {[k |-> k, next |-> nx] : k \in {0, pageLimitOf(w, lim)}, nx \in BOOLEAN}

Sum(f) == f["liked"] + f["saved"] + f["recent"]

(* line 284 without the test allItems.length < maxItems *)
WalkLoop_NoCap(w, n, nx) ==
    IF nx
    THEN /\ wpc' = [wpc EXCEPT ![w] = "fetching"]
         /\ asked' = [asked EXCEPT ![w] = @ + 1]
         /\ UNCHANGED res
    ELSE /\ wpc' = [wpc EXCEPT ![w] = "done"]
         /\ res' = [res EXCEPT ![w] = Min(n, maxItemsOf(w, syncLimit))]
         /\ UNCHANGED asked

(* lines 284-286 and 299: the head of the while loop *)
WalkLoop(w, n, nx) ==
    IF nx /\ n < maxItemsOf(w, syncLimit)
    THEN /\ wpc' = [wpc EXCEPT ![w] = "fetching"]
         /\ asked' = [asked EXCEPT ![w] = @ + 1]
         /\ UNCHANGED res
    ELSE /\ wpc' = [wpc EXCEPT ![w] = "done"]
         /\ res' = [res EXCEPT ![w] = Min(n, maxItemsOf(w, syncLimit))]
         /\ UNCHANGED asked

(* lines 358-359 passing the walk's own count to onProgress *)
PageOk_OwnCount(w, page) ==
    /\ wpc[w] = "fetching"
    /\ page.next => asked[w] < MaxPages
    /\ got' = [got EXCEPT ![w] = @ + page.k]
    /\ more' = [more EXCEPT ![w] = page.next]
    /\ told' = [told EXCEPT ![w] = @ + 1]
    /\ reported' = got'[w]
    /\ wpc' = [wpc EXCEPT ![w] = "progress"]
    /\ UNCHANGED <<jMode, jLimit, mode, syncLimit, quickMode, rpc, rError, response,
                   sphereStored, tpc, tError, asked, wError, res>>

(* lines 293-295: a page arrives; onPage sets the walk's count and calls    *)
(* onProgress with the sum of the three counts                              *)
PageOk(w, page) ==
    /\ wpc[w] = "fetching"
    /\ page.next => asked[w] < MaxPages
    /\ got' = [got EXCEPT ![w] = @ + page.k]
    /\ more' = [more EXCEPT ![w] = page.next]
    /\ told' = [told EXCEPT ![w] = @ + 1]
    /\ reported' = Sum(got')
    /\ wpc' = [wpc EXCEPT ![w] = "progress"]
    /\ UNCHANGED <<jMode, jLimit, mode, syncLimit, quickMode, rpc, rError, response,
                   sphereStored, tpc, tError, asked, wError, res>>

(* line 295 resumes, line 296 and the loop again *)
ProgressDone(w) ==
    /\ wpc[w] = "progress"
    /\ WalkLoop(w, got[w], more[w])
    /\ UNCHANGED <<jMode, jLimit, mode, syncLimit, quickMode, rpc, rError, response,
                   sphereStored, tpc, tError, got, more, told, wError, reported>>

(* lines 310-316 without the test for "HTTP 403" *)
WalkCaught_Rethrow(w, e) ==
    /\ wError' = [wError EXCEPT ![w] = e]
    /\ wpc' = [wpc EXCEPT ![w] = "failed"]
    /\ tError' = IF tError = NoError THEN e ELSE tError
    /\ UNCHANGED res

(* lines 310-316 returning [] for every error *)
WalkCaught_Absorb(w, e) ==
    /\ wError' = [wError EXCEPT ![w] = e]
    /\ wpc' = [wpc EXCEPT ![w] = "done"]
    /\ res' = [res EXCEPT ![w] = 0]
    /\ UNCHANGED tError

(* lines 310-316: collectPaged threw e *)
WalkCaught(w, e) ==
    /\ wError' = [wError EXCEPT ![w] = e]
    /\ IF IsPermissionError(e)
       THEN /\ wpc' = [wpc EXCEPT ![w] = "done"]
            /\ res' = [res EXCEPT ![w] = 0]
            /\ UNCHANGED tError
       ELSE /\ wpc' = [wpc EXCEPT ![w] = "failed"]
            /\ tError' = IF tError = NoError THEN e ELSE tError
            /\ UNCHANGED res

(* line 295: onProgress rejects (part_000 line 206: the progress record     *)
(* cannot be written)                                                       *)
ProgressFail(w) ==
    /\ wpc[w] = "progress"
    /\ WalkCaught(w, StoreError)
    /\ UNCHANGED <<jMode, jLimit, mode, syncLimit, quickMode, rpc, rError, response,
                   sphereStored, tpc, got, more, asked, told, reported>>

(* lines 286-293: fetchWithRetry threw, or safeJson threw on a response     *)
(* that is not ok                                                           *)
PageFail(w, e) ==
    /\ wpc[w] = "fetching"
    /\ WalkCaught(w, e)
    /\ UNCHANGED <<jMode, jLimit, mode, syncLimit, quickMode, rpc, rError, response,
                   sphereStored, tpc, got, more, asked, told, reported>>

(* line 383: Promise.all settles *)
TracksSettle ==
    /\ tpc = "pending"
    /\ \/ /\ \E w \in Walks : wpc[w] = "failed"
          /\ tpc' = "rejected"
       \/ /\ \A w \in Walks : wpc[w] \in {"off", "done"}
          /\ tpc' = "resolved"
    /\ UNCHANGED <<jMode, jLimit, mode, syncLimit, quickMode, rpc, rError, response,
                   sphereStored, tError, wpc, got, more, asked, told, wError, res,
                   reported>>

----------------------------------------------------------------------------
(* The sync route, part_000 lines 148-293.  POST is suspended at:           *)
(*   "idle"       the request has arrived                                   *)
(*   "gate"       the body is parsed (line 163)                             *)
(*   "auth"       line 187, await ensureValidAccessToken                    *)
(*   "tracks"     line 197, await withTimeout(fetchUserTracks(...))         *)
(*   "features"   line 228, await withTimeout(fetchAudioFeatures(...))      *)
(*   "responded"  it returned a response with status response              *)
walkVars == <<tpc, tError, wpc, got, more, asked, told, wError, res, reported>>
optionVars == <<jMode, jLimit, mode, syncLimit, quickMode>>

(* lines 154-156: the session holds no tokens *)
RouteUnauthenticated ==
    /\ rpc = "idle"
    /\ response' = 401
    /\ rpc' = "responded"
    /\ UNCHANGED <<optionVars, walkVars, rError, sphereStored>>

(* lines 258-292: the catch block *)
RouteCatch(e) ==
    /\ rError' = e
    /\ response' = IF e.kind = "http" /\ e.status = 429 THEN 429 ELSE 500
    /\ rpc' = "responded"
    /\ UNCHANGED <<optionVars, walkVars, sphereStored>>

(* lines 164-177: the shared cool-down is active (limited) or not *)
RouteGate(limited) ==
    /\ rpc = "gate"
    /\ IF limited
       THEN response' = 429 /\ rpc' = "responded"
       ELSE rpc' = "auth" /\ UNCHANGED response
    /\ UNCHANGED <<optionVars, walkVars, rError, sphereStored>>

(* lines 187-203 and part_004 lines 356-381: the token is valid and         *)
(* fetchUserTracks is called; each enabled walk requests its first page     *)
(* (pathOrUrl is the initial path and 0 < maxItems)                         *)
CallFetchUserTracks ==
    /\ rpc = "auth"
    /\ rpc' = "tracks"
    /\ tpc' = "pending"
    /\ wpc' = [w \in Walks |-> IF includeOf(mode, w) THEN "fetching" ELSE "off"]
    /\ asked' = [w \in Walks |-> IF includeOf(mode, w) THEN 1 ELSE 0]
    /\ UNCHANGED <<optionVars, rError, response, sphereStored, tError, got, more,
                   told, wError, res, reported>>

(* line 187: ensureValidAccessToken throws *)
RouteAuthFail(e) ==
    /\ rpc = "auth"
    /\ RouteCatch(e)

(* the number of tracks fetchUserTracks returns: at most limit (line 410),  *)
(* none when the walks returned nothing, and no more than the liked and     *)
(* recent items when no album was returned                                  *)
TrackCounts ==
    {n \in {0, 1, syncLimit} :
        /\ n <= syncLimit
        /\ Sum(res) = 0 => n = 0
        /\ res["saved"] = 0 => n <= res["liked"] + res["recent"]}

(* lines 197-229: fetchUserTracks returned n tracks *)
RouteTracksOk(n) ==
    /\ rpc = "tracks" /\ tpc = "resolved"
    /\ rpc' = "features"
    /\ ids' = [i \in 1..n |-> i]
    /\ fpc' = "idle"
    /\ UNCHANGED <<optionVars, walkVars, rError, response, sphereStored>>
    /\ UNCHANGED <<groups, byId, fIdx, fSent, fAnswers, fError>>

(* line 197: fetchUserTracks threw *)
RouteTracksFail ==
    /\ rpc = "tracks" /\ tpc = "rejected"
    /\ RouteCatch(tError)

(* lines 143 and 217: the timer of withTimeout fires first *)
RouteTracksTimeout ==
    /\ rpc = "tracks" /\ tpc = "pending"
    /\ RouteCatch(TimeoutError)

(* lines 228-257: fetchAudioFeatures returned; the sphere is stored *)
RouteFeaturesOk ==
    /\ rpc = "features" /\ fpc = "returned"
    /\ sphereStored' = TRUE
    /\ response' = 200
    /\ rpc' = "responded"
    /\ UNCHANGED <<optionVars, walkVars, rError>>

(* line 228: fetchAudioFeatures threw *)
RouteFeaturesFail ==
    /\ rpc = "features" /\ fpc = "threw"
    /\ RouteCatch(fError)

(* lines 143 and 230: the timer of withTimeout fires first *)
RouteFeaturesTimeout ==
    /\ rpc = "features" /\ fpc \in {"idle", "waiting"}
    /\ RouteCatch(TimeoutError)

----------------------------------------------------------------------------
(* The session file, src/lib/sessionStore.ts: one record with the fields    *)
(* tokens, sphere and syncProgress.  A setter reads the record and writes   *)
(* it back with one field replaced (lines 37-55); the read and the write of *)
(* one call are one step here, which loses nothing within one invocation:   *)
(* while a progress write of a walk is pending, no other field is written.  *)
NoTokens == "none"
HeldTokens == "held"
FreshTokens == "fresh"
PriorTracks == 7
Sphere(by, n) == [by |-> by, trackCount |-> n]
PriorSphere == Sphere("earlier", PriorTracks)
Progress(st, pct, ph) == [status |-> st, percent |-> pct, phase |-> ph]
NoProgress == Progress("idle", 0, "none")
(* part_000 lines 168-175 and 279-286 *)
ErrorProgress == Progress("error", 100, "error")

setSessionTokens(prev, tokens) == [prev EXCEPT !.tokens = tokens]

setSessionSphere_Merge(prev, sphere) ==
    [prev EXCEPT !.sphere = Sphere(sphere.by, prev.sphere.trackCount + sphere.trackCount)]

setSessionSphere(prev, sphere) == [prev EXCEPT !.sphere = sphere]
setSessionSyncProgress(prev, syncProgress) == [prev EXCEPT !.syncProgress = syncProgress]

(* Math.round(a / b) for a >= 0 and b > 0 *)
MathRound(a, b) == (2 * a + b) \div (2 * b)

(* part_000 line 205 *)
trackPercent(fetched, lim) ==
    Min(55, 20 + MathRound(Min(fetched, lim) * 35, Max(lim, 1)))

(* part_004 lines 452-458 and part_000 line 260 *)
retryAfterOf(until, t) == normalizeRemaining(until, t)
is429(e) == e.kind = "http" /\ e.status = 429

restFetch == <<now, pc, attempt, timer, lastResponse, lastError, sent, got429,
               okSince, seen, world>>
SetUntil(until) == spotifyRateLimitedUntil' = until /\ UNCHANGED restFetch
(* part_004 lines 150-160: what the last response of a request does to the  *)
(* shared deadline; a 429 without retry-after sets the default delay        *)
UntilAfter(e) ==
    IF e = NoError THEN untilAfterOk(spotifyRateLimitedUntil)
    ELSE IF is429(e)
         THEN untilAfter429(spotifyRateLimitedUntil, now, DEFAULT_RATE_LIMIT_DELAY_MS)
         ELSE spotifyRateLimitedUntil

(* lines 154-156 *)
StoreUnauthenticated ==
    /\ session.tokens = NoTokens
    /\ RouteUnauthenticated
    /\ UNCHANGED <<fetchVars, featVars, storeVars>>

(* lines 158-163 *)
StoreParseBody ==
    /\ session.tokens # NoTokens
    /\ ParseBody
    /\ UNCHANGED <<fetchVars, featVars, storeVars>>

(* lines 164-185 *)
StoreGate ==
    LET remaining == retryAfterOf(spotifyRateLimitedUntil, now) IN
    /\ RouteGate(remaining > 0)
    /\ SetUntil(normalizeUntil(spotifyRateLimitedUntil, now))
    /\ IF remaining > 0
       THEN /\ session' = setSessionSyncProgress(session, ErrorProgress)
            /\ retryAfterMs' = remaining
       ELSE /\ session' = setSessionSyncProgress(session, Progress("running", 8, "auth"))
            /\ UNCHANGED retryAfterMs
    /\ UNCHANGED <<featVars, wpct>>

(* lines 187-203: the tokens are returned as they are or refreshed, stored, *)
(* and the walks start                                                      *)
StoreCallFetchUserTracks ==
    /\ CallFetchUserTracks
    /\ \E tokens \in {session.tokens, FreshTokens} :
          session' = setSessionSyncProgress(setSessionTokens(session, tokens),
                                            Progress("running", 20, "tracks"))
    /\ UNCHANGED <<fetchVars, featVars, wpct, retryAfterMs>>

(* lines 258-291: what the catch block writes and answers *)
StoreCatch(e) ==
    /\ session' = setSessionSyncProgress(session, ErrorProgress)
    /\ retryAfterMs' = IF is429(e) THEN retryAfterOf(spotifyRateLimitedUntil, now) ELSE 0
    /\ SetUntil(normalizeUntil(spotifyRateLimitedUntil, now))
    /\ UNCHANGED <<featVars, wpct>>

StoreAuthFail(e) == RouteAuthFail(e) /\ StoreCatch(e)
StoreTracksFail == RouteTracksFail /\ StoreCatch(tError)
StoreTracksTimeout == RouteTracksTimeout /\ StoreCatch(TimeoutError)
StoreFeaturesFail == RouteFeaturesFail /\ StoreCatch(fError)
StoreFeaturesTimeout == RouteFeaturesTimeout /\ StoreCatch(TimeoutError)

(* part_004 line 295 and part_000 lines 204-206: the page arrived with 2xx, *)
(* onProgress computes the percent and begins to write it                   *)
StorePageOk(w, page) ==
    /\ PageOk(w, page)
    /\ wpct' = [wpct EXCEPT ![w] = trackPercent(reported', syncLimit)]
    /\ SetUntil(UntilAfter(NoError))
    /\ UNCHANGED <<featVars, session, retryAfterMs>>

(* part_000 lines 206-214: the write of onProgress lands *)
StoreProgressDone(w) ==
    /\ ProgressDone(w)
    /\ session' = setSessionSyncProgress(session, Progress("running", wpct[w], "tracks"))
    /\ wpct' = [wpct EXCEPT ![w] = -1]
    /\ UNCHANGED <<fetchVars, featVars, retryAfterMs>>

(* sessionStore.ts line 34: writeFile rejects *)
StoreProgressFail(w) ==
    /\ ProgressFail(w)
    /\ wpct' = [wpct EXCEPT ![w] = -1]
    /\ UNCHANGED <<fetchVars, featVars, session, retryAfterMs>>

StorePageFail(w, e) ==
    /\ PageFail(w, e)
    /\ SetUntil(UntilAfter(e))
    /\ UNCHANGED <<featVars, storeVars>>

StoreTracksSettle == TracksSettle /\ UNCHANGED <<fetchVars, featVars, storeVars>>

(* lines 197-226 *)
StoreTracksOk(n) ==
    /\ RouteTracksOk(n)
    /\ session' = setSessionSyncProgress(session, Progress("running", 58, "features"))
    /\ UNCHANGED <<fetchVars, wpct, retryAfterMs>>

StoreFeatCall == FeatCall /\ UNCHANGED <<fetchVars, syncVars, storeVars>>
StoreFeatOk(pattern) ==
    FeatOk(pattern) /\ SetUntil(UntilAfter(NoError)) /\ UNCHANGED <<syncVars, storeVars>>
StoreFeatFail(e) ==
    FeatFail(e) /\ SetUntil(UntilAfter(e)) /\ UNCHANGED <<syncVars, storeVars>>

(* lines 228-257: progress 84, createSpherePayload, setSessionSphere,       *)
(* progress done                                                            *)
StoreFeaturesOk ==
    /\ RouteFeaturesOk
    /\ session' = setSessionSyncProgress(
                      setSessionSphere(
                          setSessionSyncProgress(session, Progress("running", 84, "embedding")),
                          Sphere("this", Len(ids))),
                      Progress("done", 100, "done"))
    /\ UNCHANGED <<fetchVars, featVars, wpct, retryAfterMs>>

----------------------------------------------------------------------------
(* The payload, part_005 lines 331-486 ("@/lib/embedding").                 *)
(* Reals are fixed-point numbers: the integer v stands for v / Q.  A string *)
(* is the sequence of its char codes.                                       *)
Q == 10000
Trunc(a, b) == IF a >= 0 THEN a \div b ELSE -((-a) \div b)
Abs(a) == IF a >= 0 THEN a ELSE -a

(* Math.sqrt, rounded down to the grid *)
RECURSIVE SqrtBetween(_, _, _)
SqrtBetween(v, lo, hi) ==
    IF lo >= hi THEN lo
    ELSE LET mid == (lo + hi + 1) \div 2 IN
         IF mid * mid <= v THEN SqrtBetween(v, mid, hi) ELSE SqrtBetween(v, lo, mid - 1)
MathSqrt(v) == SqrtBetween(v, 0, 2 * Q)

(* lines 331-343 with maxRadius = 1.5 *)
simplePositionFromEnergyValence_NoClip(features) ==
    LET x0 == Trunc((2 * features.valence - Q) * 92, 100)
        y0 == Trunc((2 * features.energy - Q) * 92, 100)
        maxRadius == (Q * 150) \div 100
        radius == MathSqrt(x0 * x0 + y0 * y0)
        x == IF radius > maxRadius THEN Trunc(x0 * maxRadius, radius) ELSE x0
        y == IF radius > maxRadius THEN Trunc(y0 * maxRadius, radius) ELSE y0
        z == MathSqrt(Max(0, Q * Q - x * x - y * y))
    IN  <<x, y, z>>

(* lines 331-343 *)
simplePositionFromEnergyValence(features) ==
    LET x0 == Trunc((2 * features.valence - Q) * 92, 100)
        y0 == Trunc((2 * features.energy - Q) * 92, 100)
        maxRadius == (Q * 96) \div 100
        radius == MathSqrt(x0 * x0 + y0 * y0)
        x == IF radius > maxRadius THEN Trunc(x0 * maxRadius, radius) ELSE x0
        y == IF radius > maxRadius THEN Trunc(y0 * maxRadius, radius) ELSE y0
        z == MathSqrt(Max(0, Q * Q - x * x - y * y))
    IN  <<x, y, z>>

(* lines 350-357: the 32-bit hash is kept as two 16-bit halves.             *)
(* 2166136261 = 33052 * 2^16 + 40389 and 16777619 = 2^24 + 403              *)
FNV_OFFSET_HI == 33052
FNV_OFFSET_LO == 40389
FNV_PRIME_LOW == 403
Half == 65536

RECURSIVE Xor(_, _)
Xor(a, b) ==
    IF a = 0 THEN b
    ELSE IF b = 0 THEN a
    ELSE 2 * Xor(a \div 2, b \div 2) + (IF a % 2 = b % 2 THEN 0 ELSE 1)

(* lines 353-354: hash ^= code; hash = Math.imul(hash, 16777619) *)
hashStep(hash, code) ==
    LET lo == Xor(hash.lo, code % Half)
        hi == Xor(hash.hi, code \div Half)
        low == lo * FNV_PRIME_LOW
    IN  [hi |-> (hi * FNV_PRIME_LOW + low \div Half + (lo % 256) * 256) % Half,
         lo |-> low % Half]

RECURSIVE hashFrom(_, _)
hashFrom(hash, input) ==
    IF input = <<>> THEN hash ELSE hashFrom(hashStep(hash, Head(input)), Tail(input))
hashString(input) == hashFrom([hi |-> FNV_OFFSET_HI, lo |-> FNV_OFFSET_LO], input)

(* artists.join(",") *)
RECURSIVE join(_)
join(artists) ==
    IF artists = <<>> THEN <<>>
    ELSE IF Len(artists) = 1 THEN artists[1]
    ELSE artists[1] \o <<44>> \o join(Tail(artists))

(* lines 345-348: the fractional part of Math.sin(seed) * 10000.  The sine  *)
(* of a 32-bit seed is beyond integer arithmetic; in its place stands       *)
(* another fixed map from the seed base + offset to the grid points of      *)
(* [0, 1).                                                                  *)
seededUnit(base, offset) ==
    (((base.hi % 1000) * 7 + (base.lo % 1000) * 3 + offset * 11) % 1000) * (Q \div 1000)

(* lines 359-385 reading the clock *)
fallbackFeaturesFromTrack_Clock(track) ==
    LET base == hashString(track.id \o <<58>> \o track.name \o <<58>> \o join(track.artists)) IN
    [id |-> track.id,
     danceability |-> seededUnit(base, 11),
     energy |-> seededUnit(base, 23 + entropy),
     key |-> (seededUnit(base, 37) * 12) \div Q,
     loudness |-> seededUnit(base, 53) * 60 - 60 * Q,
     mode |-> IF 2 * seededUnit(base, 71) > Q THEN 1 ELSE 0,
     speechiness |-> seededUnit(base, 89),
     acousticness |-> seededUnit(base, 101),
     instrumentalness |-> seededUnit(base, 131),
     liveness |-> seededUnit(base, 149),
     valence |-> seededUnit(base, 167),
     tempo |-> 70 * Q + seededUnit(base, 191) * 110,
     time_signature |-> 4]

(* lines 359-385 *)
fallbackFeaturesFromTrack(track) ==
    LET base == hashString(track.id \o <<58>> \o track.name \o <<58>> \o join(track.artists)) IN
    [id |-> track.id,
     danceability |-> seededUnit(base, 11),
     energy |-> seededUnit(base, 23),
     key |-> (seededUnit(base, 37) * 12) \div Q,
     loudness |-> seededUnit(base, 53) * 60 - 60 * Q,
     mode |-> IF 2 * seededUnit(base, 71) > Q THEN 1 ELSE 0,
     speechiness |-> seededUnit(base, 89),
     acousticness |-> seededUnit(base, 101),
     instrumentalness |-> seededUnit(base, 131),
     liveness |-> seededUnit(base, 149),
     valence |-> seededUnit(base, 167),
     tempo |-> 70 * Q + seededUnit(base, 191) * 110,
     time_signature |-> 4]

(* lines 459-464 and 449-454: the axes of a payload with tracks, and of an  *)
(* empty one                                                                *)
FixedAxes ==
    [energy |-> <<0, 1, 0>>, tempo |-> <<0, 0, 1>>, valence |-> <<1, 0, 0>>,
     acousticness |-> <<-1, 0, 0>>]
EmptyAxes ==
    [energy |-> <<0, 1, 0>>, tempo |-> <<1, 0, 0>>, valence |-> <<0, 0, 1>>,
     acousticness |-> <<-1, 0, 0>>]
NoPayload == [generatedAt |-> -1, trackCount |-> -1, tracks |-> <<>>, semanticAxes |-> EmptyAxes]

(* lines 437-442: featureMap.get(track.id) ?? fallbackFeaturesFromTrack(track) *)
mergedOf(tracks, fmap) ==
    [i \in 1..Len(tracks) |->
        [track |-> tracks[i],
         features |-> IF tracks[i].id \in DOMAIN fmap
                      THEN fmap[tracks[i].id]
                      ELSE fallbackFeaturesFromTrack(tracks[i])]]

(* lines 436-486 keeping only the tracks that have features in the map *)
createSpherePayload_MappedOnly(tracks, fmap) ==
    LET merged == mergedOf(SelectSeq(tracks, LAMBDA t : t.id \in DOMAIN fmap), fmap) IN
    IF Len(merged) = 0
    THEN [generatedAt |-> entropy, trackCount |-> 0, tracks |-> <<>>,
          semanticAxes |-> EmptyAxes]
    ELSE [generatedAt |-> entropy,
          trackCount |-> Len(merged),
          tracks |-> [i \in 1..Len(merged) |->
                        [id |-> merged[i].track.id,
                         name |-> merged[i].track.name,
                         artists |-> merged[i].track.artists,
                         albumName |-> merged[i].track.albumName,
                         features |-> merged[i].features,
                         position |-> simplePositionFromEnergyValence(merged[i].features)]],
          semanticAxes |-> FixedAxes]

(* lines 436-486; the vector of a track (buildFeatureMatrix) is left out *)
createSpherePayload(tracks, fmap) ==
    LET merged == mergedOf(tracks, fmap) IN
    IF Len(merged) = 0
    THEN [generatedAt |-> entropy, trackCount |-> 0, tracks |-> <<>>,
          semanticAxes |-> EmptyAxes]
    ELSE [generatedAt |-> entropy,
          trackCount |-> Len(merged),
          tracks |-> [i \in 1..Len(merged) |->
                        [id |-> merged[i].track.id,
                         name |-> merged[i].track.name,
                         artists |-> merged[i].track.artists,
                         albumName |-> merged[i].track.albumName,
                         features |-> merged[i].features,
                         position |-> simplePositionFromEnergyValence(merged[i].features)]],
          semanticAxes |-> FixedAxes]

(* Functions of part_005 that createSpherePayload does not call.            *)
(* line 406 *)
mostlyCollapsed(zeroCount, total) == zeroCount * 10 > total * 3
(* lines 387-394: the z of fibonacciSpherePoint, cos(acos(1 - 2i / n)) *)
fibonacciHeight(index, total) == Q - Trunc((2 * index + 1) * Q, Max(total, 1))
(* lines 262-276 and 239-242: of tracks whose eight tracked features are    *)
(* all equal, every standardised value is 0 and so is every projection      *)
FEATURE_KEYS ==
    {"energy", "tempo", "valence", "danceability", "acousticness", "instrumentalness",
     "speechiness", "liveness"}
flatFeatures(features) ==
    \A i \in 1..Len(features), j \in 1..Len(features) :
        \A key \in FEATURE_KEYS : features[i][key] = features[j][key]
(* lines 399-404: the zero vectors runPca3 returns for these features,      *)
(* counted when the features are flat                                       *)
zeroVectors(features) == IF flatFeatures(features) THEN Len(features) ELSE 0

(* The libraries and feature maps given to createSpherePayload *)
MaxTracks == 2
MaxEntropy == 1
Track(id, name, artists, albumName) ==
    [id |-> id, name |-> name, artists |-> artists, albumName |-> albumName]
TrackPool ==
    {Track(<<97>>, <<120>>, << <<65>> >>, <<49>>),
     Track(<<97>>, <<120>>, << <<65>> >>, <<50>>),
     Track(<<98>>, <<121>>, << <<65>>, <<66>> >>, <<49>>),
     Track(<<99>>, <<120>>, <<>>, <<49>>)}
Libraries ==
    UNION {{lib \in [1..n -> TrackPool] :
               \A i \in 1..n, j \in 1..n : i # j => lib[i].id # lib[j].id} :
           n \in 0..MaxTracks}
(* features as the API returns them: valence and energy at a level *)
RealLevels == {Q \div 2, Q}
realFeatures(id, level) ==
    [id |-> id, danceability |-> Q \div 2, energy |-> level, key |-> 0,
     loudness |-> -6 * Q, mode |-> 1, speechiness |-> 0, acousticness |-> Q \div 2,
     instrumentalness |-> 0, liveness |-> 0, valence |-> level, tempo |-> 120 * Q,
     time_signature |-> 4]
FeatureMapsOf(lib) ==
    UNION {{[id \in D |-> realFeatures(id, level[id])] : level \in [D -> RealLevels]} :
           D \in SUBSET {lib[i].id : i \in 1..Len(lib)}}

InitPayloadVars ==
    /\ rawTracks \in Libraries
    /\ featureMap \in FeatureMapsOf(rawTracks)
    /\ payload = NoPayload /\ synthLog = {} /\ entropy = 0

(* line 240 of part_000: the route builds the payload *)
CreateSpherePayload ==
    /\ payload = NoPayload
    /\ payload' = createSpherePayload(rawTracks, featureMap)
    /\ synthLog' = synthLog \cup
          {[track |-> rawTracks[i], features |-> payload'.tracks[i].features, at |-> entropy] :
              i \in {k \in 1..Len(rawTracks) :
                        /\ rawTracks[k].id \notin DOMAIN featureMap
                        /\ k <= Len(payload'.tracks)}}
    /\ UNCHANGED <<rawTracks, featureMap, entropy>>

(* a later sync brings another library and other features *)
NextLibrary ==
    /\ payload # NoPayload
    /\ \E lib \in Libraries : \E fmap \in FeatureMapsOf(lib) :
          rawTracks' = lib /\ featureMap' = fmap
    /\ payload' = NoPayload
    /\ UNCHANGED <<synthLog, entropy>>

(* the clock moves, Math.random is drawn from *)
TimePasses ==
    /\ entropy < MaxEntropy
    /\ entropy' = entropy + 1
    /\ UNCHANGED <<rawTracks, featureMap, payload, synthLog>>

----------------------------------------------------------------------------
(* buildFeatureMatrix, part_005 lines 244-276.                              *)
(* Numbers are binary floating-point numbers: every operation returns its   *)
(* exact result rounded to the nearest number with PrecisionBits            *)
(* significant bits, ties to even (the code's numbers have 53).  The        *)
(* integer v stands for v / Unit, and no number is finer than 1 / Unit.     *)
PrecisionBits == 4
Unit == 4096
RECURSIVE BitLength(_)
BitLength(n) == IF n = 0 THEN 0 ELSE 1 + BitLength(n \div 2)
(* num / den >= 0, rounded *)
RoundRatio(num, den) ==
    LET bits == BitLength(num \div den)
        step == 2 ^ Max(0, bits - PrecisionBits)
        k == num \div (den * step)
        rest == num - k * den * step
        up == 2 * rest > den * step \/ (2 * rest = den * step /\ k % 2 = 1)
    IN  (IF up THEN k + 1 ELSE k) * step
Fl(num, den) == IF num >= 0 THEN RoundRatio(num, den) ELSE -RoundRatio(-num, den)
FlAdd(a, b) == Fl(a + b, 1)
FlSub(a, b) == Fl(a - b, 1)
FlMul(a, b) == Fl(a * b, Unit)
FlDiv(a, b) == IF b > 0 THEN Fl(a * Unit, b) ELSE -Fl(a * Unit, -b)
(* Math.sqrt: the root to four more bits, and whether it is exact *)
FlSqrt(a) ==
    LET t == SqrtBetween(a * Unit * 256, 0, 46340)
    IN  Fl(4 * t + (IF t * t = a * Unit * 256 THEN 0 ELSE 1), 64)

(* lines 244-255 for 0 < p < 1 and fewer than 50 values: index < 1 *)
percentile(sorted, p) ==
    LET index == FlMul((Len(sorted) - 1) * Unit, p)
        lower == 1
        upper == IF index > 0 THEN 2 ELSE 1
        weight == index
    IN  IF lower = upper THEN sorted[lower]
        ELSE FlAdd(FlMul(sorted[lower], FlSub(Unit, weight)), FlMul(sorted[upper], weight))
clamp(value, min, max) == Max(min, Min(max, value))

RECURSIVE sumFrom(_, _)
sumFrom(sum, values) ==
    IF values = <<>> THEN sum ELSE sumFrom(FlAdd(sum, Head(values)), Tail(values))
RECURSIVE squaresFrom(_, _, _)
squaresFrom(sum, values, mean) ==
    IF values = <<>> THEN sum
    ELSE LET d == FlSub(Head(values), mean) IN
         squaresFrom(FlAdd(sum, FlMul(d, d)), Tail(values), mean)

(* lines 264-272: one column, from the values of its key *)
columnOf(values) ==
    LET sorted == SortSeq(values, LAMBDA a, b : a < b)
        low == percentile(sorted, Fl(2 * Unit, 100))
        high == percentile(sorted, Fl(98 * Unit, 100))
        clamped == [i \in 1..Len(values) |-> clamp(values[i], low, high)]
        mean == FlDiv(sumFrom(0, clamped), Max(Len(clamped), 1) * Unit)
        variance == FlDiv(squaresFrom(0, clamped, mean), Max(Len(clamped) - 1, 1) * Unit)
        root == FlSqrt(variance)
        sd == IF root = 0 THEN Unit ELSE root
    IN  [i \in 1..Len(values) |-> FlDiv(FlSub(clamped[i], mean), sd)]

(* lines 161-170, in order *)
featureKeyAt ==
    <<"energy", "tempo", "valence", "danceability", "acousticness", "instrumentalness",
      "speechiness", "liveness">>
(* line 264 *)
valuesOf(features, key) ==
    [i \in 1..Len(features) |->
        IF key = "tempo" THEN Fl(features[i].tempo, 220) ELSE features[i][key]]
(* lines 262-276 *)
buildFeatureMatrix(features) ==
    LET columns == [c \in 1..Len(featureKeyAt) |-> columnOf(valuesOf(features, featureKeyAt[c]))]
    IN  [rowIndex \in 1..Len(features) |->
            [c \in 1..Len(featureKeyAt) |-> columns[c][rowIndex]]]

(* the feature lists given to buildFeatureMatrix *)
MaxRows == 3
MatrixLevels == {Unit \div 2, (7 * Unit) \div 8}
MatrixTempos == {120 * Unit, 224 * Unit}
matrixFeatures(id, energy, valence, tempo) ==
    [id |-> id, danceability |-> Unit \div 2, energy |-> energy, key |-> 0,
     loudness |-> -6 * Unit, mode |-> Unit, speechiness |-> 0, acousticness |-> Unit \div 2,
     instrumentalness |-> 0, liveness |-> 0, valence |-> valence, tempo |-> tempo,
     time_signature |-> 4 * Unit]
InitMatrixVars ==
    /\ \E n \in 1..MaxRows :
          \E energy \in [1..n -> MatrixLevels], valence \in [1..n -> MatrixLevels],
             tempo \in [1..n -> MatrixTempos] :
             trackFeatures = [i \in 1..n |-> matrixFeatures(i, energy[i], valence[i], tempo[i])]
    /\ featureMatrix = <<>>
(* line 457: createSpherePayload builds the matrix *)
BuildFeatureMatrix ==
    /\ featureMatrix = <<>>
    /\ featureMatrix' = buildFeatureMatrix(trackFeatures)
    /\ UNCHANGED trackFeatures

----------------------------------------------------------------------------
(* DirectionSelector, components/MusicSphereCanvas.tsx lines 116-165.       *)
(* A coordinate c stands for c / 10, a score s for s / ScoreUnit; of the    *)
(* clock only now - lastSwitchTs is kept, and only up to SwitchCap.         *)
ScoreUnit == 100
DEBOUNCE_MS == 120
SwitchCap == 200
NoTrack == 0
SphereTrack(id, position) == [id |-> id, position |-> position]
TrackSets ==
    {<<>>,
     <<SphereTrack(1, <<0, 0, 10>>), SphereTrack(2, <<10, 0, 0>>)>>,
     <<SphereTrack(1, <<0, 0, 10>>), SphereTrack(2, <<10, 0, 0>>),
       SphereTrack(3, <<0, 10, 0>>), SphereTrack(4, <<0, 0, 10>>)>>}
Directions == {<<0, 0, 10>>, <<6, 0, 8>>, <<8, 0, -6>>, <<0, 10, 0>>}
FrameSteps == {16, 70}

(* lines 134-137 *)
scoreOf(viewAxis, track) ==
    viewAxis[1] * track.position[1] + viewAxis[2] * track.position[2]
       + viewAxis[3] * track.position[3]
(* lines 130-143: the loop over the tracks, from index i on *)
RECURSIVE bestFrom(_, _, _, _)
bestFrom(best, tracks, i, viewAxis) ==
    IF i > Len(tracks) THEN best
    ELSE LET score == scoreOf(viewAxis, tracks[i]) IN
         bestFrom(IF score > best.score THEN [id |-> tracks[i].id, score |-> score] ELSE best,
                  tracks, i + 1, viewAxis)
bestOf(tracks, viewAxis) ==
    bestFrom([id |-> NoTrack, score |-> -2 * ScoreUnit], tracks, 1, viewAxis)

(* lines 146-152 without canSwitch *)
switches_NoDebounce(best, cur, elapsed) ==
    /\ best.id # NoTrack
    /\ \/ cur.id = NoTrack
       \/ /\ best.id # cur.id
          /\ 200 * best.score >= 200 * cur.score - 3 * ScoreUnit

(* lines 146-152: bestId && (isInitial || (canSwitch && changedTrack &&     *)
(* acceptableSwitch)); 0.015 is 3 / 200                                     *)
switches(best, cur, elapsed) ==
    /\ best.id # NoTrack
    /\ \/ cur.id = NoTrack
       \/ /\ elapsed > DEBOUNCE_MS
          /\ best.id # cur.id
          /\ 200 * best.score >= 200 * cur.score - 3 * ScoreUnit

(* lines 125-162: the callback of useFrame, dt after the frame before *)
Frame(dt) ==
    LET elapsed == Min(SwitchCap, sinceSwitch + dt)
        best == bestOf(sphereTracks, camera)
    IN  /\ UNCHANGED <<sphereTracks, camera>>
        /\ IF sphereTracks = <<>>
           THEN /\ sinceSwitch' = elapsed
                /\ UNCHANGED <<current, gap>>
           ELSE IF switches(best, current, elapsed)
           THEN /\ current' = best
                /\ sinceSwitch' = 0
                /\ gap' = IF current.id = NoTrack THEN gap ELSE elapsed
           ELSE /\ current' = IF best.id = current.id
                              THEN [current EXCEPT !.score = best.score] ELSE current
                /\ sinceSwitch' = elapsed
                /\ UNCHANGED gap

(* the user turns the sphere: OrbitControls moves the camera *)
MoveCamera ==
    /\ \E d \in Directions \ {camera} : camera' = d
    /\ UNCHANGED <<sphereTracks, current, sinceSwitch, gap>>

InitSelectVars ==
    /\ sphereTracks \in TrackSets
    /\ camera = <<0, 0, 10>>
    /\ current = [id |-> NoTrack, score |-> -2 * ScoreUnit]
    /\ sinceSwitch = 0
    /\ gap = -1

----------------------------------------------------------------------------
(* The session file under concurrent requests, lib/sessionStore.ts.         *)
(* A field holds None (absent) or a value.                                  *)
None == 0
Fields == {"tokens", "profile", "sphere", "syncProgress"}
FieldValues == {2}
MaxCalls == 2
(* the sync route (part_000 lines 188-250) and the player-token route       *)
(* (part_001 line 16) *)
Requests == {"sync", "player"}
FieldsOf(r) == IF r = "sync" THEN {"tokens", "sphere", "syncProgress"} ELSE {"tokens"}
(* line 28: what getSessionData returns when the file is missing or does    *)
(* not parse                                                                *)
NoData == [f \in Fields |-> None]
LoggedIn == [NoData EXCEPT !["tokens"] = 1]
IdleSetter == [pc |-> "idle", field |-> "tokens", value |-> None, prev |-> NoData, calls |-> 0]

(* lines 37-55: a request calls setSession<field>(sessionId, value) *)
CallSetter(r, field, value) ==
    /\ setter[r].pc = "idle" /\ setter[r].calls < MaxCalls
    /\ setter' = [setter EXCEPT ![r] = [pc |-> "reading", field |-> field, value |-> value,
                                        prev |-> NoData, calls |-> setter[r].calls + 1]]
    /\ UNCHANGED <<file, loggedOut, lastWrite>>
(* lines 22-30: const prev = await getSessionData(sessionId) *)
ReadSessionData(r) ==
    /\ setter[r].pc = "reading"
    /\ setter' = [setter EXCEPT ![r].pc = "opening", ![r].prev = file]
    /\ UNCHANGED <<file, loggedOut, lastWrite>>
(* line 34: writeFile opens the file, which empties it *)
OpenForWrite(r) ==
    /\ setter[r].pc = "opening"
    /\ file' = NoData
    /\ setter' = [setter EXCEPT ![r].pc = "writing"]
    /\ UNCHANGED <<loggedOut, lastWrite>>
(* line 34: writeFile has written {...prev, field} *)
WriteSessionData(r) ==
    /\ setter[r].pc = "writing"
    /\ file' = [setter[r].prev EXCEPT ![setter[r].field] = setter[r].value]
    /\ lastWrite' = [lastWrite EXCEPT ![setter[r].field] = setter[r].value]
    /\ setter' = [setter EXCEPT ![r] = [IdleSetter EXCEPT !.calls = setter[r].calls]]
    /\ UNCHANGED loggedOut
(* lines 57-60 and part_002 lines 42-47: logout removes the file *)
ClearSession ==
    /\ ~loggedOut
    /\ file' = NoData
    /\ loggedOut' = TRUE
    /\ UNCHANGED <<setter, lastWrite>>
(* part_003 line 39: what the status endpoint reports *)
authenticated == file["tokens"] # None

InitRaceVars ==
    /\ file = LoggedIn
    /\ setter = [r \in Requests |-> IdleSetter]
    /\ loggedOut = FALSE
    /\ lastWrite = LoggedIn

----------------------------------------------------------------------------
IdleFetch ==
    /\ world = "busy" /\ now = 0 /\ spotifyRateLimitedUntil = 0
    /\ pc = [p \in Calls |-> "idle"]
    /\ attempt = [p \in Calls |-> 0]
    /\ timer = [p \in Calls |-> 0]
    /\ lastResponse = [p \in Calls |-> 0]
    /\ lastError = [p \in Calls |-> "none"]
    /\ sent = [p \in Calls |-> 0]
    /\ got429 = [p \in Calls |-> -1]
    /\ okSince = [p \in Calls |-> FALSE]
    /\ seen = [p \in Calls |-> NoSeen]
IdleDelay ==
    /\ dCause = "429" /\ dHeader = NoHeader /\ dAttempt = 0 /\ dJitter = 0
    /\ dRate = 0 /\ dSleep = 0 /\ dDone = TRUE
IdleMerge ==
    /\ limit = 0 /\ liked = <<>> /\ recent = <<>> /\ savedAlbums = <<>>
    /\ trackMap = <<>> /\ mpc = "off" /\ output = <<>>

IdleFeat ==
    /\ ids = <<>> /\ groups = <<>> /\ byId = {} /\ fpc = "off" /\ fIdx = 0
    /\ fSent = <<>> /\ fAnswers = <<>> /\ fError = NoError

IdlePayload ==
    /\ rawTracks = <<>> /\ featureMap = <<>> /\ payload = NoPayload
    /\ synthLog = {} /\ entropy = 0

IdleStore ==
    /\ session = [tokens |-> NoTokens, sphere |-> PriorSphere, syncProgress |-> NoProgress]
    /\ wpct = [w \in Walks |-> -1]
    /\ retryAfterMs = -1
IdleMatrix == trackFeatures = <<>> /\ featureMatrix = <<>>
IdleSelect ==
    /\ sphereTracks = <<>> /\ camera = <<0, 0, 10>>
    /\ current = [id |-> NoTrack, score |-> -2 * ScoreUnit]
    /\ sinceSwitch = 0 /\ gap = -1
IdleRace ==
    /\ file = NoData /\ setter = [r \in Requests |-> IdleSetter]
    /\ loggedOut = FALSE /\ lastWrite = NoData
IdleClient == IdleMatrix /\ IdleSelect /\ IdleRace
IdleSync ==
    /\ jMode = "absent" /\ jLimit = NoLimit
    /\ mode = "quick" /\ syncLimit = 0 /\ quickMode = TRUE
    /\ rpc = "off" /\ rError = NoError /\ response = 0 /\ sphereStored = FALSE
    /\ tpc = "off" /\ tError = NoError
    /\ wpc = [w \in Walks |-> "off"]
    /\ got = [w \in Walks |-> 0]
    /\ more = [w \in Walks |-> TRUE]
    /\ asked = [w \in Walks |-> 0]
    /\ told = [w \in Walks |-> 0]
    /\ wError = [w \in Walks |-> NoError]
    /\ res = [w \in Walks |-> 0]
    /\ reported = 0

(* The concurrent calls of fetchWithRetry *)
Init == InitFetch /\ IdleDelay /\ IdleMerge /\ IdleFeat /\ IdleSync /\ IdleStore /\ IdlePayload /\ IdleClient
Next ==
    \/ \E p \in Calls : Start(p) /\ UNCHANGED exceptFetch
    \/ \E p \in Calls : WakeCool(p) /\ UNCHANGED exceptFetch
    \/ \E p \in Calls : RespondOk(p) /\ UNCHANGED exceptFetch
    \/ \E p \in Calls, h \in FetchHeaders :
          Respond429(p, h) /\ UNCHANGED exceptFetch
    \/ \E p \in Calls, s \in Statuses, h \in FetchHeaders, j \in Jitters :
          RespondOther(p, s, h, j) /\ UNCHANGED exceptFetch
    \/ \E p \in Calls : NetworkFail(p) /\ UNCHANGED exceptFetch
    \/ \E p \in Calls : Abort(p) /\ UNCHANGED exceptFetch
    \/ \E p \in Calls : WakeRetry(p) /\ UNCHANGED exceptFetch
    \/ ReadRateLimitState /\ UNCHANGED exceptFetch
    \/ TickClock /\ UNCHANGED exceptFetch
    \/ JumpClock /\ UNCHANGED exceptFetch
Spec == Init /\ [][Next]_vars

(* The calls of fetchWithRetry in the faulty world, with the fairness of    *)
(* the event loop: a continuation that can run does run, a pending fetch    *)
(* settles (at the latest by its abort timer), and time passes.             *)
CallStep(p) ==
    \/ WakeCool(p)
    \/ WakeRetry(p)
    \/ RespondOk(p)
    \/ \E h \in FetchHeaders : Respond429(p, h)
    \/ \E st \in Statuses, h \in FetchHeaders, j \in Jitters : RespondOther(p, st, h, j)
    \/ NetworkFail(p)
    \/ Abort(p)
InitFaulty == Init /\ world = "faulty"
FairSpec ==
    /\ InitFaulty
    /\ [][Next]_vars
    /\ \A p \in Calls : WF_vars(CallStep(p) /\ UNCHANGED exceptFetch)
    /\ WF_vars((TickClock \/ JumpClock) /\ UNCHANGED exceptFetch)

(* The delay functions *)
InitDelays == IdleFetch /\ InitDelay /\ IdleMerge /\ IdleFeat /\ IdleSync /\ IdleStore /\ IdlePayload /\ IdleClient
NextDelay == ComputeDelays /\ UNCHANGED exceptDelay
SpecDelay == InitDelays /\ [][NextDelay]_vars

(* The merge of fetchUserTracks *)
InitTracks == IdleFetch /\ IdleDelay /\ InitMerge /\ IdleFeat /\ IdleSync /\ IdleStore /\ IdlePayload /\ IdleClient
NextMerge ==
    \/ MergeLiked /\ UNCHANGED exceptMerge
    \/ MergeRecent /\ UNCHANGED exceptMerge
    \/ MergeSaved /\ UNCHANGED exceptMerge
    \/ ReturnTracks /\ UNCHANGED exceptMerge
SpecMerge == InitTracks /\ [][NextMerge]_vars

(* fetchAudioFeatures *)
InitFeatures == IdleFetch /\ IdleDelay /\ IdleMerge /\ InitFeat /\ IdleSync /\ IdleStore /\ IdlePayload /\ IdleClient
NextFeatures ==
    \/ FeatCall /\ UNCHANGED exceptFeat
    \/ \E pattern \in NullPatterns : FeatOk(pattern) /\ UNCHANGED exceptFeat
    \/ \E e \in FetchErrors : FeatFail(e) /\ UNCHANGED exceptFeat
SpecFeatures == InitFeatures /\ [][NextFeatures]_vars

(* The options of the sync route, for every request body *)
InitSync(modes, limits) ==
    /\ jMode \in modes /\ jLimit \in limits
    /\ mode = "quick" /\ syncLimit = 0 /\ quickMode = TRUE
    /\ rpc = "idle" /\ rError = NoError /\ response = 0 /\ sphereStored = FALSE
    /\ tpc = "off" /\ tError = NoError
    /\ wpc = [w \in Walks |-> "off"]
    /\ got = [w \in Walks |-> 0]
    /\ more = [w \in Walks |-> TRUE]
    /\ asked = [w \in Walks |-> 0]
    /\ told = [w \in Walks |-> 0]
    /\ wError = [w \in Walks |-> NoError]
    /\ res = [w \in Walks |-> 0]
    /\ reported = 0
InitOptions ==
    IdleFetch /\ IdleDelay /\ IdleMerge /\ IdleFeat /\ InitSync(JsonModes, JsonLimits) /\ IdleStore
       /\ IdlePayload /\ IdleClient
NextOptions == ParseBody /\ UNCHANGED <<exceptSync, featVars>>
SpecOptions == InitOptions /\ [][NextOptions]_vars

(* One invocation of the sync route *)
SyncModes == {"full", "quick"}
SyncLimits == {NoLimit, JLimit("num", 25)}
InitRoute ==
    IdleFetch /\ IdleDelay /\ IdleMerge /\ IdleFeat /\ InitSync(SyncModes, SyncLimits) /\ IdleStore
       /\ IdlePayload /\ IdleClient
NextSync ==
    \/ ParseBody /\ UNCHANGED <<exceptSync, featVars>>
    \/ RouteUnauthenticated /\ UNCHANGED <<exceptSync, featVars>>
    \/ \E limited \in BOOLEAN : RouteGate(limited) /\ UNCHANGED <<exceptSync, featVars>>
    \/ CallFetchUserTracks /\ UNCHANGED <<exceptSync, featVars>>
    \/ \E e \in FetchErrors : RouteAuthFail(e) /\ UNCHANGED <<exceptSync, featVars>>
    \/ \E w \in Walks : \E page \in PagesOf(w, syncLimit) :
          PageOk(w, page) /\ UNCHANGED <<exceptSync, featVars>>
    \/ \E w \in Walks : ProgressDone(w) /\ UNCHANGED <<exceptSync, featVars>>
    \/ \E w \in Walks : ProgressFail(w) /\ UNCHANGED <<exceptSync, featVars>>
    \/ \E w \in Walks, e \in FetchErrors : PageFail(w, e) /\ UNCHANGED <<exceptSync, featVars>>
    \/ TracksSettle /\ UNCHANGED <<exceptSync, featVars>>
    \/ \E n \in TrackCounts : RouteTracksOk(n) /\ UNCHANGED exceptSync
    \/ RouteTracksFail /\ UNCHANGED <<exceptSync, featVars>>
    \/ RouteTracksTimeout /\ UNCHANGED <<exceptSync, featVars>>
    \/ FeatCall /\ UNCHANGED exceptFeat
    \/ \E pattern \in NullPatterns : FeatOk(pattern) /\ UNCHANGED exceptFeat
    \/ \E e \in FetchErrors : FeatFail(e) /\ UNCHANGED exceptFeat
    \/ RouteFeaturesOk /\ UNCHANGED <<exceptSync, featVars>>
    \/ RouteFeaturesFail /\ UNCHANGED <<exceptSync, featVars>>
    \/ RouteFeaturesTimeout /\ UNCHANGED <<exceptSync, featVars>>
SpecSync == InitRoute /\ [][NextSync]_vars

(* The feature matrix of a library *)
InitMatrix ==
    IdleFetch /\ IdleDelay /\ IdleMerge /\ IdleFeat /\ IdleSync /\ IdleStore /\ IdlePayload
       /\ InitMatrixVars /\ IdleSelect /\ IdleRace
NextMatrix == BuildFeatureMatrix /\ UNCHANGED exceptMatrix
SpecMatrix == InitMatrix /\ [][NextMatrix]_vars

(* The selection, frame after frame *)
InitSelect ==
    IdleFetch /\ IdleDelay /\ IdleMerge /\ IdleFeat /\ IdleSync /\ IdleStore /\ IdlePayload
       /\ IdleMatrix /\ InitSelectVars /\ IdleRace
Frames == \E dt \in FrameSteps : Frame(dt) /\ UNCHANGED exceptSelect
NextSelect ==
    \/ Frames
    \/ MoveCamera /\ UNCHANGED exceptSelect
SpecSelect == InitSelect /\ [][NextSelect]_vars
(* the render loop calls the callback frame after frame *)
FairSelect == SpecSelect /\ WF_vars(Frames)

(* Two requests and a logout on one session *)
InitRace ==
    IdleFetch /\ IdleDelay /\ IdleMerge /\ IdleFeat /\ IdleSync /\ IdleStore /\ IdlePayload
       /\ IdleMatrix /\ IdleSelect /\ InitRaceVars
NextRace ==
    \/ \E r \in Requests : \E field \in FieldsOf(r), value \in FieldValues :
          CallSetter(r, field, value) /\ UNCHANGED exceptRace
    \/ \E r \in Requests : ReadSessionData(r) /\ UNCHANGED exceptRace
    \/ \E r \in Requests : OpenForWrite(r) /\ UNCHANGED exceptRace
    \/ \E r \in Requests : WriteSessionData(r) /\ UNCHANGED exceptRace
    \/ ClearSession /\ UNCHANGED exceptRace
SpecRace == InitRace /\ [][NextRace]_vars

(* The payloads of successive syncs *)
InitPayload ==
    IdleFetch /\ IdleDelay /\ IdleMerge /\ IdleFeat /\ IdleSync /\ IdleStore
       /\ InitPayloadVars /\ IdleClient
NextPayload ==
    \/ CreateSpherePayload /\ UNCHANGED exceptPayload
    \/ NextLibrary /\ UNCHANGED exceptPayload
    \/ TimePasses /\ UNCHANGED exceptPayload
SpecPayload == InitPayload /\ [][NextPayload]_vars

(* One invocation of the sync route with the session file and the shared  *)
(* cool-down                                                              *)
StoreErrors == {HttpError(403), HttpError(429)}
AuthErrors == {HttpError(401)}
StorePages(w) == {page \in PagesOf(w, syncLimit) : page.k > 0}
StoreCounts == TrackCounts \cap {0, syncLimit}
StorePatterns == {"none"}
InitStore ==
    /\ IdleDelay /\ IdleMerge /\ IdleFeat /\ IdlePayload /\ IdleClient
    /\ InitSync(SyncModes, {NoLimit})
    /\ world = "busy" /\ now = 0
    /\ spotifyRateLimitedUntil \in {0, DEFAULT_RATE_LIMIT_DELAY_MS}
    /\ pc = [p \in Calls |-> "idle"]
    /\ attempt = [p \in Calls |-> 0]
    /\ timer = [p \in Calls |-> 0]
    /\ lastResponse = [p \in Calls |-> 0]
    /\ lastError = [p \in Calls |-> "none"]
    /\ sent = [p \in Calls |-> 0]
    /\ got429 = [p \in Calls |-> -1]
    /\ okSince = [p \in Calls |-> FALSE]
    /\ seen = [p \in Calls |-> NoSeen]
    /\ session \in {[tokens |-> t, sphere |-> PriorSphere, syncProgress |-> NoProgress] :
                       t \in {NoTokens, HeldTokens}}
    /\ wpct = [w \in Walks |-> -1]
    /\ retryAfterMs = -1
NextStore ==
    \/ StoreUnauthenticated /\ UNCHANGED exceptStore
    \/ StoreParseBody /\ UNCHANGED exceptStore
    \/ StoreGate /\ UNCHANGED exceptStore
    \/ StoreCallFetchUserTracks /\ UNCHANGED exceptStore
    \/ \E e \in AuthErrors : StoreAuthFail(e) /\ UNCHANGED exceptStore
    \/ \E w \in Walks : \E page \in StorePages(w) :
          StorePageOk(w, page) /\ UNCHANGED exceptStore
    \/ \E w \in Walks : StoreProgressDone(w) /\ UNCHANGED exceptStore
    \/ \E w \in Walks : StoreProgressFail(w) /\ UNCHANGED exceptStore
    \/ \E w \in Walks, e \in StoreErrors : StorePageFail(w, e) /\ UNCHANGED exceptStore
    \/ StoreTracksSettle /\ UNCHANGED exceptStore
    \/ \E n \in StoreCounts : StoreTracksOk(n) /\ UNCHANGED exceptStore
    \/ StoreTracksFail /\ UNCHANGED exceptStore
    \/ StoreTracksTimeout /\ UNCHANGED exceptStore
    \/ StoreFeatCall /\ UNCHANGED exceptStore
    \/ \E pattern \in StorePatterns : StoreFeatOk(pattern) /\ UNCHANGED exceptStore
    \/ \E e \in StoreErrors : StoreFeatFail(e) /\ UNCHANGED exceptStore
    \/ StoreFeaturesOk /\ UNCHANGED exceptStore
    \/ StoreFeaturesFail /\ UNCHANGED exceptStore
    \/ StoreFeaturesTimeout /\ UNCHANGED exceptStore
SpecStore == InitStore /\ [][NextStore]_vars


----------------------------------------------------------------------------
(* Properties of fetchWithRetry and the shared cool-down                    *)

Done(p) == pc[p] \in {"returned", "failed"}
Retryable(status) == status = 429 \/ status >= 500

(* the time at which call p sent the request it is waiting for *)
SentAt(p) == timer[p] - REQUEST_TIMEOUT_MS

(* what a call that began 1 s after a 429 with retry-after: 5 must have     *)
(* observed, and when it may first send                                     *)
WaitedOut(p) ==
    /\ seen[p].wait >= 4000
    /\ pc[p] = "sleepCool" /\ attempt[p] = 0 => timer[p] >= seen[p].at + 4000
    /\ pc[p] = "fetching" /\ attempt[p] = 0 => SentAt(p) >= seen[p].at + 4000

(* C1, as stated: a call that begins 1 s after another call received 429    *)
(* with retry-after: 5 observes a cool-down of at least 4 s and does not    *)
(* send before it has elapsed, also when a 2xx arrived in between.          *)
C1_CoolDownSeenAlways == \A p \in Calls : seen[p].hit => WaitedOut(p)

(* C1, amended: a call that begins 1 s after another call received 429 with *)
(* retry-after: 5, no call having received a 2xx in between, observes a     *)
(* cool-down of at least 4 s and does not send before it has elapsed.       *)
C1_CoolDownSeenUnlessCleared == \A p \in Calls : seen[p].fresh => WaitedOut(p)

C1_Witness ==
    \E p \in Calls :
        /\ seen[p].fresh
        /\ pc[p] = "fetching" /\ attempt[p] = 0
        /\ SentAt(p) >= seen[p].at + 4000

(* C2: whenever an attempt sends its HTTP request, the shared cool-down is  *)
(* not active at that moment: now >= spotifyRateLimitedUntil.               *)
C2_NoSendDuringCoolDown ==
    [][\A p \in Calls :
          pc[p] # "fetching" /\ pc'[p] = "fetching"
              => now' >= spotifyRateLimitedUntil']_vars

(* C3: handling a 429 never moves the deadline earlier: afterwards it is at *)
(* least the deadline pending before and at least now + the 429's delay.    *)
C3_429NeverShrinks ==
    [][\A p \in Calls, h \in FetchHeaders :
          Respond429(p, h)
              => /\ spotifyRateLimitedUntil' >= spotifyRateLimitedUntil
                 /\ spotifyRateLimitedUntil' >= now + rateLimitDelayMs(h)]_vars

C3_Witness ==
    \E p \in Calls :
        /\ pc[p] = "sleepRetry" /\ lastResponse[p] = 429
        /\ timer[p] < spotifyRateLimitedUntil
        /\ \E q \in Calls \ {p} : lastResponse[q] = 429

(* C4: right after any 2xx response the shared cool-down is cleared,        *)
(* whatever it was and whichever call set it.                               *)
C4_OkClears ==
    [][\A p \in Calls :
          pc[p] = "fetching" /\ pc'[p] = "returned" /\ lastResponse'[p] = 200
              => spotifyRateLimitedUntil' = 0]_vars

C4_Witness ==
    \E p \in Calls, q \in Calls :
        /\ p # q
        /\ pc[p] = "returned" /\ lastResponse[p] = 200
        /\ spotifyRateLimitedUntil = 0
        /\ pc[q] = "sleepRetry" /\ lastResponse[q] = 429 /\ timer[q] > now

(* C5: a call sends at most 2 requests; it sends the second only after a    *)
(* 429, a status >= 500 or a rejected fetch; after two rejected fetches it  *)
(* fails instead of returning; and every call that began completes.         *)
C5_BoundedRetry ==
    /\ [](\A p \in Calls :
            /\ sent[p] <= MAX_RETRIES + 1
            /\ pc[p] = "returned" => lastResponse[p] # 0
            /\ Done(p) /\ sent[p] = 2 /\ lastResponse[p] = 0 => pc[p] = "failed")
    /\ [][\A p \in Calls :
            sent[p] >= 1 /\ sent'[p] > sent[p]
                => Retryable(lastResponse[p]) \/ lastError[p] # "none"]_vars
    /\ \A p \in Calls : (pc[p] # "idle") ~> Done(p)

C5_Witness ==
    \E p \in Calls :
        pc[p] = "failed" /\ sent[p] = 2 /\ lastResponse[p] = 0 /\ lastError[p] = "network"

(* C6: a 401 or 403 on the first attempt is returned after exactly one      *)
(* request, with no sleep, and leaves the shared cool-down as it was.       *)
C6_NonRetryableSurfaces ==
    [][\A p \in Calls :
          /\ pc[p] = "fetching" /\ attempt[p] = 0
          /\ pc'[p] # "fetching" /\ lastResponse'[p] \in {401, 403}
          => /\ pc'[p] = "returned"
             /\ sent'[p] = 1
             /\ timer'[p] = 0
             /\ spotifyRateLimitedUntil' = spotifyRateLimitedUntil]_vars

C6_Witness ==
    \E p \in Calls :
        /\ pc[p] = "returned" /\ lastResponse[p] \in {401, 403} /\ sent[p] = 1
        /\ spotifyRateLimitedUntil > now

(* C7: a request that exceeds the 25 s timeout is aborted and the call      *)
(* fails, without a second request.                                         *)
C7_TimeoutNotRetried ==
    \A p \in Calls : lastError[p] = "abort" => pc[p] = "failed"

----------------------------------------------------------------------------
(* Properties of the delay functions                                        *)

Clamp(lo, hi, x) == Max(lo, Min(hi, x))

C9_BackoffAlways ==
    dDone /\ dCause \in {"5xx", "error"}
        => /\ dSleep <= 3500
           /\ \E j \in 0..250 : dSleep = Min(3500, 500 * (2 ^ dAttempt) + j)

(* C9, amended: the sleep before a retry on attempt a is                    *)
(* min(3500, 500 * 2^a + jitter), jitter in 0..249, after a status >= 500   *)
(* without a valid retry-after header; min(180000, retry-after in ms,       *)
(* rounded up) after a status >= 500 with one; and 400 + 250 * a after a    *)
(* transport failure.                                                       *)
C9_BackoffByCause ==
    /\ dDone /\ dCause = "5xx" /\ dHeader.k # "num"
         => /\ dSleep <= 3500
            /\ \E j \in 0..249 : dSleep = Min(3500, 500 * (2 ^ dAttempt) + j)
    /\ dDone /\ dCause = "5xx" /\ dHeader.k = "num"
         => dSleep = Min(180000, CeilMs(dHeader))
    /\ dDone /\ dCause = "error" => dSleep = 400 + 250 * dAttempt

C9_Witness ==
    /\ dDone
    /\ \/ dCause = "error" /\ dAttempt = 0 /\ dSleep = 400
       \/ dCause = "5xx" /\ dHeader = Hdr("num", 5000, FALSE) /\ dSleep = 5000

----------------------------------------------------------------------------
(* Properties of the merge of fetchUserTracks                               *)

Ids(tracks) == {tracks[i] : i \in 1..Len(tracks)}
Places(id) == {i \in 1..Len(output) : output[i].id = id}

(* C10: a track id that is in the liked list and in the recently-played     *)
(* list is in the output exactly once, with the recently-played entry's     *)
(* metadata.                                                                *)
C10_RecentWins ==
    mpc = "done" =>
        \A id \in TrackIds :
            id \in Ids(liked) /\ id \in Ids(recent)
                => /\ Cardinality(Places(id)) = 1
                   /\ \A i \in Places(id) : output[i].src = "recent"

(* every write to trackMap, in the order of lines 387-408 *)
HasId(r) == r.id # NoId
Writes(tracks, src, a) ==
    SelectSeq([k \in 1..Len(tracks) |-> [id |-> tracks[k], src |-> src, pos |-> <<a, k>>]],
              HasId)
RECURSIVE AlbumWrites(_)
AlbumWrites(a) ==
    IF a = 0 THEN <<>> ELSE AlbumWrites(a - 1) \o Writes(savedAlbums[a], "saved", a)
AllWrites == Writes(liked, "liked", 1) \o Writes(recent, "recent", 1)
                 \o AlbumWrites(Len(savedAlbums))

(* the ids of ws in the order of their first write *)
RECURSIVE FirstIds(_)
FirstIds(ws) ==
    IF ws = <<>> THEN <<>>
    ELSE LET front == FirstIds(SubSeq(ws, 1, Len(ws) - 1))
             id == ws[Len(ws)].id
         IN IF \E i \in 1..Len(front) : front[i] = id THEN front ELSE Append(front, id)

LastWrite(ws, id) ==
    ws[CHOOSE i \in 1..Len(ws) :
          ws[i].id = id /\ \A j \in (i + 1)..Len(ws) : ws[j].id # id]

(* C11: the output holds at most limit tracks, no id twice, in the order of *)
(* each id's first write to the merge map, each with the metadata of the    *)
(* last write for its id.                                                   *)
C11_FirstWriteOrder ==
    mpc = "done" =>
        LET order == FirstIds(AllWrites) IN
        /\ Len(output) = Min(limit, Len(order))
        /\ \A i \in 1..Len(output) : output[i] = LastWrite(AllWrites, order[i])
        /\ \A i \in 1..Len(output), j \in 1..Len(output) :
              output[i].id = output[j].id => i = j

C11_Witness ==
    /\ mpc = "done" /\ Len(output) = 2
    /\ output[1].id \in Ids(liked) /\ output[1].src # "liked"
    /\ Len(FirstIds(AllWrites)) = 2 /\ Len(AllWrites) > 2

----------------------------------------------------------------------------
(* Properties of fetchAudioFeatures                                         *)

RECURSIVE Concat(_)
Concat(ss) == IF ss = <<>> THEN <<>> ELSE ss[1] \o Concat(Tail(ss))

UpTo(k) == [i \in 1..k |-> i]

(* the ids of chunk c that the endpoint answered with a feature *)
Answered(c) ==
    LET lo == (c - 1) * 100 + 1
        hi == Min(c * 100, Len(ids))
    IN IF fAnswers[c] = "all" THEN {}
       ELSE {ids[i] : i \in (IF fAnswers[c] = "first" THEN lo + 1 ELSE lo)..hi}
AnsweredUpTo(k) == UNION {Answered(c) : c \in 1..k}

(* C17: the chunks hold at most 100 ids each and their concatenation is     *)
(* ids; the chunks are requested one by one in order, each once, never two  *)
(* in flight; and a call that ends without an error has requested every     *)
(* chunk and holds every feature returned.                                  *)
C17_ChunkedSequential ==
    fpc \in {"waiting", "returned", "threw"} =>
        /\ \A c \in 1..Len(groups) : Len(groups[c]) >= 1 /\ Len(groups[c]) <= 100
        /\ Concat(groups) = ids
        /\ fSent = UpTo(Len(fSent)) /\ Len(fSent) <= Len(groups)
        /\ Len(fSent) - Len(fAnswers) = (IF fpc = "waiting" THEN 1 ELSE 0)
        /\ fpc = "returned" /\ fError = NoError
             => /\ fSent = UpTo(Len(groups))
                /\ byId = AnsweredUpTo(Len(groups))

C17_Witness ==
    /\ fpc = "returned" /\ fError = NoError
    /\ Len(groups) = 3 /\ Len(groups[3]) = 1
    /\ fAnswers[2] = "first" /\ Cardinality(byId) = 200

(* C18: when the endpoint answers chunk k with HTTP 403, the call returns   *)
(* without failing the features of the chunks before k and requests no      *)
(* later chunk.                                                             *)
C18_PermissionKeepsPartial ==
    IsPermissionError(fError) =>
        LET k == Len(fAnswers) IN
        /\ fpc = "returned"
        /\ fSent = UpTo(k)
        /\ byId = AnsweredUpTo(k - 1)

C18_Witness ==
    /\ fpc = "returned" /\ IsPermissionError(fError)
    /\ Len(fAnswers) = 2 /\ Len(groups) = 3
    /\ Cardinality(byId) = 99

----------------------------------------------------------------------------
(* Properties of the pagination walks and the sync route                    *)

Ended(w) == wpc[w] = "done" /\ wError[w] = NoError

(* a walk with item cap c asks for no page once it holds c items, ends only *)
(* when it holds c items or its source is exhausted, and returns what it    *)
(* holds, cut to c                                                          *)
StopsAt(w, c) ==
    /\ wpc[w] = "fetching" => got[w] < c
    /\ Ended(w) => /\ got[w] >= c \/ ~more[w]
                   /\ res[w] = Min(got[w], c)
                   /\ res[w] <= c

(* C12, as stated: the liked walk and the recently-played walk are capped   *)
(* at limit, the saved-collections walk at limit / 5.                       *)
C12_CapsAsStated ==
    /\ StopsAt("liked", syncLimit)
    /\ StopsAt("recent", syncLimit)
    /\ StopsAt("saved", syncLimit \div 5)

(* C12, amended: the liked walk is capped at limit, the recently-played     *)
(* walk at max(1, floor(limit / 2)), the saved-collections walk at          *)
(* max(1, floor(limit / 5)).                                                *)
C12_CapsByWalk ==
    /\ StopsAt("liked", syncLimit)
    /\ StopsAt("recent", IF syncLimit \div 2 >= 1 THEN syncLimit \div 2 ELSE 1)
    /\ StopsAt("saved", IF syncLimit \div 5 >= 1 THEN syncLimit \div 5 ELSE 1)

C12_Witness ==
    /\ Ended("recent") /\ more["recent"]
    /\ got["recent"] > res["recent"] /\ res["recent"] = syncLimit \div 2
    /\ Ended("saved") /\ more["saved"] /\ res["saved"] = syncLimit \div 5

(* C13: a walk that receives HTTP 403 on any page returns an empty list,    *)
(* and fetchUserTracks is not failed by it.                                 *)
C13_PermissionDegradesToEmpty ==
    /\ \A w \in Walks : IsPermissionError(wError[w]) => wpc[w] = "done" /\ res[w] = 0
    /\ ~IsPermissionError(tError)
    /\ tpc = "rejected" => \E w \in Walks : wpc[w] = "failed"
    /\ (\A w \in Walks : wpc[w] \in {"off", "done"}) => tpc # "rejected"

C13_Witness ==
    /\ tpc = "resolved"
    /\ \E w \in Walks, v \in Walks :
          /\ IsPermissionError(wError[w]) /\ got[w] > 0 /\ told[w] = 1 /\ asked[w] = 2
          /\ res[v] > 0

FailedOtherwise(e) == e # NoError /\ ~IsPermissionError(e)

C15_ProgressAfterEveryPage ==
    /\ [](\A w \in Walks :
            told[w] = asked[w] - (IF wpc[w] = "fetching" THEN 1 ELSE 0)
                               - (IF wError[w].kind \in {"http", "transport"} THEN 1 ELSE 0))
    /\ [][/\ reported' >= reported
          /\ \A w \in Walks :
                told'[w] # told[w]
                    => /\ told'[w] = told[w] + 1
                       /\ wpc'[w] = "progress"
                       /\ reported' = got'["liked"] + got'["saved"] + got'["recent"]]_vars

C15_Witness ==
    /\ told["liked"] = 2 /\ told["recent"] = 1 /\ told["saved"] = 1
    /\ reported = got["liked"] + got["saved"] + got["recent"]
    /\ got["liked"] > 0 /\ got["saved"] > 0 /\ got["recent"] > 0

(* C16: a failure of onProgress does not abort the walk, nor                *)
(* fetchUserTracks.                                                         *)
C16_ProgressFailureHarmless ==
    /\ \A w \in Walks : wError[w] = StoreError => wpc[w] # "failed"
    /\ tError # StoreError

(* C19, as stated: quick mode walks liked and recently played and skips     *)
(* saved collections; full mode walks all three.                            *)
C19_SourcesAsStated ==
    tpc # "off" =>
        /\ asked["liked"] >= 1
        /\ asked["recent"] >= 1
        /\ asked["saved"] >= 1 <=> ~quickMode

(* C19, amended: quick mode walks liked only; full mode walks liked, saved  *)
(* collections and recently played.                                         *)
C19_SourcesByMode ==
    tpc # "off" =>
        /\ asked["liked"] >= 1
        /\ asked["recent"] >= 1 <=> ~quickMode
        /\ asked["saved"] >= 1 <=> ~quickMode
        /\ quickMode <=> jMode # "full"

C19_Witness ==
    /\ quickMode /\ tpc = "resolved"
    /\ res["liked"] > 0 /\ asked["recent"] = 0 /\ asked["saved"] = 0

(* C20: the limit is 20 in quick mode and 180 in full mode when the caller  *)
(* gives none or a non-finite one, and otherwise the caller's value clamped *)
(* to [20, 1000]; a mode other than "full" is quick.                        *)
C20_LimitByMode ==
    rpc = "gate" =>
        /\ mode = (IF jMode = "full" THEN "full" ELSE "quick")
        /\ quickMode <=> jMode # "full"
        /\ syncLimit = IF jLimit.k = "num"
                       THEN (IF jLimit.n < 20 THEN 20
                             ELSE IF jLimit.n > 1000 THEN 1000 ELSE jLimit.n)
                       ELSE (IF jMode = "full" THEN 180 ELSE 20)

C20_Witness ==
    /\ rpc = "gate"
    /\ \/ jMode = "other" /\ jLimit = JLimit("num", 19) /\ syncLimit = 20
       \/ jMode = "full" /\ jLimit = JLimit("inf", 0) /\ syncLimit = 180

----------------------------------------------------------------------------
(* Properties of the sync route with the session file                       *)

(* C21: during one invocation the stored percent lies in [0, 100] and never *)
(* decreases, for every interleaving of the walks' progress writes.         *)
C21_PercentNeverDecreases ==
    /\ [](session.syncProgress.percent \in 0..100)
    /\ [][session'.syncProgress.percent >= session.syncProgress.percent]_vars

(* C22: once an envelope has timed out no pagination request and no batch   *)
(* request is made, the caller gets the timeout failure and no sphere is    *)
(* stored.                                                                  *)
C22_TimeoutStopsRequests ==
    /\ [](rError = TimeoutError => ~sphereStored /\ response = 500)
    /\ [][rError = TimeoutError => asked' = asked /\ fSent' = fSent]_vars

(* C23: when the invocation has answered with an error, the progress record *)
(* of the session is the error record (status error, phase error, percent   *)
(* 100).                                                                    *)
C23_ErrorsReachProgress ==
    rpc = "responded" /\ response # 200 => session.syncProgress = ErrorProgress

(* C24: when the route answers 429, retryAfterMs is positive and is the     *)
(* cool-down pending in the shared state at that moment.                    *)
C24_RetryHintPending ==
    [][rpc # "responded" /\ rpc' = "responded" /\ response' = 429
          => /\ retryAfterMs' > 0
             /\ retryAfterMs' = retryAfterOf(spotifyRateLimitedUntil', now')]_vars

----------------------------------------------------------------------------
(* The sphere payload (SpecPayload) *)

PayloadBuilt == payload # NoPayload /\ payload.trackCount >= 1
PayloadFeatures == [i \in 1..Len(payload.tracks) |-> payload.tracks[i].features]
SqNorm(v) == v[1] * v[1] + v[2] * v[2] + v[3] * v[3]

(* C26: when more than 30% of the tracks of a library give a zero PCA      *)
(* vector, every position of the payload is the Fibonacci-sphere point of   *)
(* its track index (checked on the height z = 1 - (2i + 1) / n).            *)
C26_CollapsedGoesFibonacci ==
    PayloadBuilt /\ mostlyCollapsed(zeroVectors(PayloadFeatures), payload.trackCount)
       => \A i \in 1..payload.trackCount :
             Abs(payload.tracks[i].position[3] - fibonacciHeight(i - 1, payload.trackCount)) <= 1

(* C27: every position of a payload with tracks lies on the unit sphere,    *)
(* for real and for synthesized features: x^2 + y^2 <= 1 and z is the       *)
(* square root of 1 - x^2 - y^2 (to the resolution 1/Q of the numbers).     *)
C27_PositionsOnUnitSphere ==
    PayloadBuilt
       => \A i \in 1..payload.trackCount :
             LET pos == payload.tracks[i].position
                 rest == Q * Q - pos[1] * pos[1] - pos[2] * pos[2]
             IN  /\ rest >= 0 /\ pos[3] >= 0
                 /\ pos[3] * pos[3] <= rest /\ rest < (pos[3] + 1) * (pos[3] + 1)
C27_Witness ==
    /\ payload # NoPayload /\ payload.trackCount = 2
    /\ \E i, j \in 1..2 :
          /\ payload.tracks[i].id \in DOMAIN featureMap
          /\ payload.tracks[i].features.valence = Q
          /\ payload.tracks[i].position[3] > 0
          /\ payload.tracks[j].id \notin DOMAIN featureMap

PayloadKeepsTracks ==
    /\ payload.trackCount = Len(rawTracks)
    /\ Len(payload.tracks) = Len(rawTracks)
    /\ \A i \in 1..Len(rawTracks) :
          /\ payload.tracks[i].id = rawTracks[i].id
          /\ payload.tracks[i].name = rawTracks[i].name
          /\ payload.tracks[i].features.id = rawTracks[i].id
          /\ payload.tracks[i].features =
                IF rawTracks[i].id \in DOMAIN featureMap
                THEN featureMap[rawTracks[i].id]
                ELSE fallbackFeaturesFromTrack(rawTracks[i])
PayloadAxesUnitOrZero ==
    /\ DOMAIN payload.semanticAxes = {"energy", "tempo", "valence", "acousticness"}
    /\ \A key \in DOMAIN payload.semanticAxes : SqNorm(payload.semanticAxes[key]) \in {0, 1}

C30_SingleTrackAxesZero ==
    payload # NoPayload /\ payload.trackCount = 1
       => \A key \in DOMAIN payload.semanticAxes : payload.semanticAxes[key] = <<0, 0, 0>>

----------------------------------------------------------------------------
(* The shared cool-down deadline (Spec) *)

(* C37: in every state the shared cool-down deadline is at most 180 s      *)
(* after the current time, whatever 429 responses, successes and state      *)
(* reads the concurrent calls have had.                                     *)
C37_DeadlineWithinMax == spotifyRateLimitedUntil <= now + MAX_RATE_LIMIT_DELAY_MS
C37_Witness ==
    /\ spotifyRateLimitedUntil = now + MAX_RATE_LIMIT_DELAY_MS
    /\ \E p \in Calls : \E q \in Calls : p # q /\ got429[p] >= 0 /\ sent[q] > 0

----------------------------------------------------------------------------
(* Termination of the pagination walks (SpecSync) *)

(* C38: every walk ends after a bounded number of page requests whatever    *)
(* the server answers, pages without items and with a next cursor included: *)
(* each request after the first follows a page that brought items, so a     *)
(* walk makes at most as many requests as its item cap, and it requests no  *)
(* page once it holds that many items or has received a null cursor.        *)
C38_WalkBounded ==
    \A w \in Walks :
       /\ asked[w] <= got[w] + 1
       /\ asked[w] <= maxItemsOf(w, syncLimit)
       /\ wpc[w] = "fetching" => got[w] < maxItemsOf(w, syncLimit) /\ more[w]

----------------------------------------------------------------------------
(* Terminal progress records (SpecStore) *)

(* C34: once the invocation has written a progress record with status done *)
(* or error, no later write of the invocation puts a record with status     *)
(* running in its place.                                                    *)
C34_TerminalProgressStays ==
    [][session.syncProgress.status \in {"done", "error"}
          => session'.syncProgress.status # "running"]_vars

----------------------------------------------------------------------------
(* The feature matrix (SpecMatrix) *)

MatrixBuilt == featureMatrix # <<>>
(* the values of a key are the same for every track *)
FlatColumn(c) ==
    \A i, j \in 1..Len(trackFeatures) :
        trackFeatures[i][featureKeyAt[c]] = trackFeatures[j][featureKeyAt[c]]

(* C31: buildFeatureMatrix returns one row of 8 values per track, and a     *)
(* column whose values are all equal (a single track included) is 0 for     *)
(* every track.                                                             *)
C31_FlatColumnIsZero ==
    MatrixBuilt
       => /\ Len(featureMatrix) = Len(trackFeatures)
          /\ \A i \in 1..Len(featureMatrix) : Len(featureMatrix[i]) = 8
          /\ \A c \in 1..8 :
                FlatColumn(c) => \A i \in 1..Len(featureMatrix) : featureMatrix[i][c] = 0

----------------------------------------------------------------------------
(* The selection (SpecSelect, FairSelect) *)

(* C32: after the initial selection the selected track changes only when    *)
(* more than 120 ms have passed since the change before, to the track with  *)
(* the highest score, which is another track and scores at least the        *)
(* recorded score of the current one minus 0.015; hence two changes are     *)
(* more than 120 ms apart.                                                  *)
C32_DebouncedSwitch ==
    /\ [](gap = -1 \/ gap > DEBOUNCE_MS)
    /\ [][current.id # NoTrack /\ current'.id # current.id
             => /\ current' = bestOf(sphereTracks, camera)
                /\ gap' > DEBOUNCE_MS /\ sinceSwitch' = 0
                /\ 200 * current'.score >= 200 * current.score - 3 * ScoreUnit]_vars
C32_Witness ==
    /\ gap > DEBOUNCE_MS /\ gap < SwitchCap
    /\ current.id # 1 /\ sinceSwitch > 0

(* C33: when the camera direction stays fixed from some frame on, the       *)
(* selected track eventually is the track with the highest score for that   *)
(* direction.                                                               *)
IsNearest(id, d) ==
    \E i \in 1..Len(sphereTracks) :
        /\ sphereTracks[i].id = id
        /\ scoreOf(d, sphereTracks[i]) = bestOf(sphereTracks, d).score
C33_SelectsNearest ==
    \A d \in Directions :
        <>[](camera = d) => <>(sphereTracks = <<>> \/ IsNearest(current.id, d))

----------------------------------------------------------------------------
(* The session file under concurrent requests (SpecRace) *)

AllSettersDone == \A r \in Requests : setter[r].pc = "idle"

(* C35: when all setSession* calls on a session have completed, every field *)
(* holds the value of the last write made to that field.                    *)
C35_NoLostUpdate ==
    AllSettersDone /\ ~loggedOut
       => \A f \in Fields : file[f] = lastWrite[f]

(* C36: once clearSession has completed the session holds no tokens, no     *)
(* sphere and no progress, and the status endpoint reports it               *)
(* unauthenticated, also when a request was in flight at the logout.        *)
C36_LogoutClears ==
    loggedOut => file = NoData /\ ~authenticated
====
